---- MODULE Spec2Model ----
(***************************************************************************)
(* Model of script.py: the JsonParser walk over an ORACC "cdl" tree that   *)
(* builds a docx Document (paragraphs of runs), and main()'s loop over     *)
(* the loaded records.                                                     *)
(*                                                                         *)
(* Representation.                                                         *)
(*  - A Python dict is a TLA+ record/function; "k in d" is k \in DOMAIN d, *)
(*    d[k] on a missing key is a KeyError.                                 *)
(*  - A Python str that the code inspects character by character is a      *)
(*    sequence of characters.  An ASCII character is the one-character     *)
(*    string; a non-ASCII character is named by its code point ("U+00E2"). *)
(*    Identifiers and tags that are only compared are TLA+ strings.        *)
(*  - A docx run is [text, italic, superscript, superscript_attr]:         *)
(*    superscript is run.font.superscript, superscript_attr is the plain   *)
(*    attribute run.superscript that _add_excised_d_node assigns.          *)
(*  - A handler's effect on the Document is a sequence of primitive        *)
(*    operations (add_paragraph, add_run on a paragraph reference) applied *)
(*    in program order; an uncaught exception cuts the sequence short.     *)
(***************************************************************************)
EXTENDS Integers, Sequences, FiniteSets, TLC

VARIABLES
    pc,            \* position of main(): "main", "run", "walk", "save", "crashed"
    cdl_dict,      \* self.cdl_dict of the current JsonParser
    stack,         \* pending for-loops of parse_json / traverse_c_node
    doc,           \* the docx Document: sequence of paragraphs (sequences of runs)
    l_reflist,     \* self.l_reflist
    found_obverse_or_reverse_d_node,
    soup,          \* self.soup
    has_aramaic,   \* self.has_aramaic
    saved,         \* whether the last save_docx wrote a file
    lastOps,       \* history: node handled and Document operations of the last step
    lvisits,       \* history: one entry per Lemma node dispatched in this walk
    parked         \* a second JsonParser and its walk, while it is not running

vars == <<pc, cdl_dict, stack, doc, l_reflist,
          found_obverse_or_reverse_d_node, soup, has_aramaic, saved,
          lastOps, lvisits, parked>>

-----------------------------------------------------------------------------
(* Bounds of the explored input space.                                     *)

\* nodes other than the two enclosing chunks in one tree
MaxNodes == 2
\* of these, nodes that follow the inner chunk in the outer chunk
MaxPost == 1

-----------------------------------------------------------------------------
(* Python built-ins on dicts, lists and strings.                           *)

Has(d, k) == k \in DOMAIN d

Get(d, k, default) == IF k \in DOMAIN d THEN d[k] ELSE default

RECURSIVE Concat(_)
Concat(ss) == IF ss = <<>> THEN <<>> ELSE Head(ss) \o Concat(Tail(ss))

Last(s) == s[Len(s)]

\* The alphabet: the ASCII letters the inputs and literals use, and the
\* non-ASCII characters of the literals of the source, classified as Python's
\* str methods classify them.
CaseTable == << <<"a", "A">>, <<"b", "B">>, <<"c", "C">>, <<"d", "D">>,
                <<"e", "E">>, <<"i", "I">>, <<"k", "K">>, <<"l", "L">>,
                <<"m", "M">>, <<"n", "N">>, <<"o", "O">>, <<"r", "R">>,
                <<"s", "S">>, <<"t", "T">>, <<"u", "U">>, <<"v", "V">>,
                <<"x", "X">>, <<"U+00E2", "U+00C2">>, <<"U+0192", "U+0191">> >>
\* U+00BA is a lower-case letter without an upper-case form; U+00C3 is upper-case
LowerChars == {CaseTable[i][1] : i \in DOMAIN CaseTable} \cup {"U+00BA"}
UpperChars == {CaseTable[i][2] : i \in DOMAIN CaseTable} \cup {"U+00C3"}
\* str.isdigit() holds of the ASCII digits and of the subscript/superscript digits
Digits == {"0", "1", "2", "3", "U+2081", "U+2082", "U+2083", "U+00B9"}
Whitespace == {" ", "U+00A0"}

IsLowerChar(c) == c \in LowerChars
IsUpperChar(c) == c \in UpperChars
IsAlpha(c) == IsLowerChar(c) \/ IsUpperChar(c)
IsDigit(c) == c \in Digits

\* str.upper() / str.capitalize() of one character
UpperChar(c) ==
    IF \E i \in DOMAIN CaseTable : CaseTable[i][1] = c
    THEN CaseTable[CHOOSE i \in DOMAIN CaseTable : CaseTable[i][1] = c][2]
    ELSE c

\* str.islower(): at least one cased character and no upper-case one
IsLower(s) == /\ \E i \in 1..Len(s) : IsLowerChar(s[i])
              /\ \A i \in 1..Len(s) : ~IsUpperChar(s[i])

\* "needle in hay" for strings
Contains(hay, needle) ==
    \E i \in 0..(Len(hay) - Len(needle)) :
        \A j \in 1..Len(needle) : hay[i + j] = needle[j]

RECURSIVE LStrip(_, _)
LStrip(s, chars) == IF s # <<>> /\ Head(s) \in chars THEN LStrip(Tail(s), chars) ELSE s

RECURSIVE RStrip(_, _)
RStrip(s, chars) ==
    IF s # <<>> /\ Last(s) \in chars THEN RStrip(SubSeq(s, 1, Len(s) - 1), chars) ELSE s

Strip(s, chars) == RStrip(LStrip(s, chars), chars)

IsPrefix(p, s) == Len(p) <= Len(s) /\ SubSeq(s, 1, Len(p)) = p

\* str.replace(old, new): left to right, non-overlapping
RECURSIVE Replace(_, _, _)
Replace(s, old, new) ==
    IF s = <<>> THEN <<>>
    ELSE LET hit == IsPrefix(old, s)
         IN  (IF hit THEN new ELSE <<Head(s)>>)
             \o Replace(SubSeq(s, (IF hit THEN Len(old) ELSE 1) + 1, Len(s)), old, new)

-----------------------------------------------------------------------------
(* String literals of the source.                                          *)

TextHeader == <<"T", "e", "x", "t">>
ObverseHeader == <<"O", "b", "v", "e", "r", "s", "e">>
ReverseHeader == <<"R", "e", "v", "e", "r", "s", "e">>
ColumnWord == <<"c", "o", "l", "u", "m", "n">>

LaquoLit == <<"U+00C2", "U+00AB">>
RaquoLit == <<"U+00C2", "U+00BB">>
LsaquoLit == <<"U+00E2", "U+20AC", "U+00B9">>
RsaquoLit == <<"U+00E2", "U+20AC", "U+00BA">>
HalfOpenLit == <<"U+00E2", "U+00B8", "U+00A2">>
HalfCloseLit == <<"U+00E2", "U+00B8", "U+00A3">>
SubTwoLit == <<"U+00E2", "U+201A", "U+201A">>
SubThreeLit == <<"U+00E2", "U+201A", "U+0192">>
QueriedLit == <<"(", "?", ")">>
EllipsisLit == <<".", ".", ".">>

FracHalfLit == <<"U+00C2", "U+00BD">>
FracThirdLit == <<"U+00E2", "U+2026", "U+201C">>
FracTwoThirdsLit == <<"U+00E2", "U+2026", "U+201D">>

\* closing_punct_mirror, as (key, value) pairs
closing_punct_mirror ==
    << << <<"]">>, <<"[">> >>,
       << <<")">>, <<"(">> >>,
       << RsaquoLit, LsaquoLit >>,
       << RaquoLit, LaquoLit >>,
       << <<")">> \o RsaquoLit, LsaquoLit \o <<"(">> >> >>

MirrorHas(k) == \E i \in DOMAIN closing_punct_mirror : closing_punct_mirror[i][1] = k

MirrorOf(k) ==
    closing_punct_mirror[CHOOSE i \in DOMAIN closing_punct_mirror :
                             closing_punct_mirror[i][1] = k][2]

\* vowel_subscript_to_accent_map[vowel][subscript]
vowel_subscript_to_accent_map ==
    [a |-> [two |-> <<"U+00C3", "U+00A1">>, three |-> <<"U+00C3", "U+00A0">>],
     e |-> [two |-> <<"U+00C3", "U+00A9">>, three |-> <<"U+00C3", "U+00A8">>],
     i |-> [two |-> <<"U+00C3", "U+00AD">>, three |-> <<"U+00C3", "U+00AC">>],
     u |-> [two |-> <<"U+00C3", "U+00BA">>, three |-> <<"U+00C3", "U+00B9">>]]

-----------------------------------------------------------------------------
(* Runs and results of the rendering helpers.  A helper returns the runs   *)
(* it added to the paragraph and the exception it raised ("" when none).   *)

Rn(text, italic, superscript, attr) ==
    [text |-> text, italic |-> italic, superscript |-> superscript,
     superscript_attr |-> attr]

Plain(text) == Rn(text, FALSE, FALSE, FALSE)

Ok(runs) == [runs |-> runs, err |-> ""]
Raise(runs, e) == [runs |-> runs, err |-> e]

\* sequential composition: b runs only when a raised nothing
Then(a, b) == IF a.err # "" THEN a ELSE [runs |-> a.runs \o b.runs, err |-> b.err]

\* dict.get(k, "") used as a condition, for flag values (TLA+ strings)
Truthy(d, k) == k \in DOMAIN d /\ d[k] # ""

\* the chain .replace("<<", ..).replace("<", ..).replace(">>", ..).replace(">", ..).replace("$", "")
NormalizeAngles(frag) ==
    Replace(Replace(Replace(Replace(Replace(frag,
        <<"<", "<">>, LaquoLit), <<"<">>, LsaquoLit),
        <<">", ">">>, RaquoLit), <<">">>, RsaquoLit), <<"$">>, <<>>)

\* _convert_2_or_3_subscript: [val, err]
LowerChar(c) ==
    IF \E i \in DOMAIN CaseTable : CaseTable[i][2] = c
    THEN CaseTable[CHOOSE i \in DOMAIN CaseTable : CaseTable[i][2] = c][1]
    ELSE c

UpperStr(s) == [i \in DOMAIN s |-> UpperChar(s[i])]

RECURSIVE ReplaceFirst(_, _, _)
ReplaceFirst(s, ch, new) ==
    IF s = <<>> THEN <<>>
    ELSE IF Head(s) = ch THEN new \o Tail(s)
    ELSE <<Head(s)>> \o ReplaceFirst(Tail(s), ch, new)

\* lines 992-995, for the vowel char found at the first position of the loop
Accented(sign, char, accent) ==
    ReplaceFirst(SubSeq(sign, 1, Len(sign) - 1), char,
                 IF IsUpperChar(char) THEN UpperStr(accent) ELSE accent)

FirstVowelIndex(sign) ==
    CHOOSE k \in 1..Len(sign) :
        /\ LowerChar(sign[k]) \in {"a", "e", "i", "u"}
        /\ \A j \in 1..(k - 1) : LowerChar(sign[j]) \notin {"a", "e", "i", "u"}

AccentAt(sign, i, subscript_num) ==
    Accented(sign, sign[i], vowel_subscript_to_accent_map[LowerChar(sign[i])][subscript_num])

AccentFirstVowel(sign, subscript_num) ==
    IF \E i \in 1..Len(sign) : LowerChar(sign[i]) \in {"a", "e", "i", "u"}
    THEN AccentAt(sign, FirstVowelIndex(sign), subscript_num)
    ELSE sign

Convert2Or3Subscript(sign) ==
    IF sign = <<>> THEN [val |-> sign, err |-> "IndexError"]
    ELSE IF ~IsDigit(Last(sign)) THEN [val |-> sign, err |-> ""]
    ELSE IF Len(sign) > 2 /\ IsDigit(sign[Len(sign) - 1]) THEN [val |-> sign, err |-> ""]
    \* sign[-1] is one character; it is compared with the literals of lines 981, 983
    ELSE IF <<Last(sign)>> = SubTwoLit
         THEN [val |-> AccentFirstVowel(sign, "two"), err |-> ""]
    ELSE IF <<Last(sign)>> = SubThreeLit
         THEN [val |-> AccentFirstVowel(sign, "three"), err |-> ""]
    ELSE [val |-> sign, err |-> ""]

\* the run of a converted sign: add_run(word), italic when by_case and word.islower()
ConvertedRun(word, by_case, superscript) ==
    IF word.err # "" THEN Raise(<<>>, word.err)
    ELSE Ok(<<Rn(word.val, by_case /\ IsLower(word.val), superscript, FALSE)>>)

\* lines 915-924: the opener literal
MirrorRun(norm) ==
    IF MirrorHas(norm) THEN Ok(<<Plain(MirrorOf(norm))>>) ELSE Raise(<<>>, "KeyError")

OpenerRuns(gdl_node, o_frag) ==
    IF Has(gdl_node, "id") /\ Get(gdl_node, "statusStart", "") = gdl_node.id
    THEN MirrorRun(NormalizeAngles(o_frag))
    ELSE IF Get(gdl_node, "statusStart", "") = "int:1" THEN Ok(<<Plain(o_frag)>>)
    ELSE Ok(<<>>)

\* _add_pre_frag_symbols
AddPreFragSymbols(gdl_node) ==
    Then(Ok(IF Truthy(gdl_node, "breakStart") THEN <<Plain(<<"[">>)>> ELSE <<>>),
    Then(OpenerRuns(gdl_node, Strip(Get(gdl_node, "o", <<>>), {"[", "]"})),
         Ok(IF Truthy(gdl_node, "ho") THEN <<Plain(HalfOpenLit)>> ELSE <<>>)))

\* lines 959-963
DelimRuns(delim) ==
    IF delim = <<>> THEN <<>>
    ELSE IF delim = <<"/">> THEN <<Plain(<<" ", "/", " ">>)>>
    ELSE <<Plain(delim)>>

\* _add_post_frag_symbols with lines 954-955 ahead of lines 940-952
AddPostFragSymbolsBreakFirst(gdl_node) ==
    Ok( (IF Truthy(gdl_node, "breakEnd") THEN <<Plain(<<"]">>)>> ELSE <<>>)
     \o (IF Truthy(gdl_node, "queried") THEN <<Plain(QueriedLit)>> ELSE <<>>)
     \o (IF Truthy(gdl_node, "hc") THEN <<Plain(HalfCloseLit)>> ELSE <<>>)
     \o DelimRuns(Get(gdl_node, "delim", <<>>)) )

\* _add_post_frag_symbols
AddPostFragSymbols(gdl_node) ==
    Ok( (IF Truthy(gdl_node, "queried") THEN <<Plain(QueriedLit)>> ELSE <<>>)
     \o (IF Truthy(gdl_node, "hc") THEN <<Plain(HalfCloseLit)>> ELSE <<>>)
     \o (IF Has(gdl_node, "id") /\ Get(gdl_node, "statusStart", "") = gdl_node.id
         THEN <<Plain(NormalizeAngles(Strip(Get(gdl_node, "o", <<>>), {"[", "]"})))>>
         ELSE <<>>)
     \o (IF Truthy(gdl_node, "breakEnd") THEN <<Plain(<<"]">>)>> ELSE <<>>)
     \o DelimRuns(Get(gdl_node, "delim", <<>>)) )

\* _add_excised_d_node, the body of the loop of lines 447-461: the runs one
\* character adds and the mode after it
ExcisedChar(char, det_mode) ==
    IF char = "{" THEN [runs |-> <<>>, det_mode |-> TRUE]
    ELSE IF char = "}" THEN [runs |-> <<>>, det_mode |-> FALSE]
    ELSE IF IsAlpha(char) \/ IsDigit(char)
    THEN LET c2 == IF det_mode /\ IsLowerChar(char) /\ char # "m" /\ char # "d"
                   THEN UpperChar(char) ELSE char
         IN  [runs |-> <<Rn(<<c2>>, IsLowerChar(c2), FALSE, det_mode)>>,
              det_mode |-> det_mode]
    ELSE [runs |-> <<Plain(<<char>>)>>, det_mode |-> det_mode]

RECURSIVE ExcisedChars(_, _)
ExcisedChars(frag, det_mode) ==
    IF frag = <<>> THEN <<>>
    ELSE LET one == ExcisedChar(Head(frag), det_mode)
         IN  one.runs \o ExcisedChars(Tail(frag), one.det_mode)

IndexOf(s, ch) ==
    IF \E i \in 1..Len(s) : s[i] = ch
    THEN (CHOOSE i \in 1..Len(s) : s[i] = ch /\ \A j \in 1..(i - 1) : s[j] # ch) - 1
    ELSE -1

\* line 442: the mode the loop starts in
StartsInDetMode(frag) == IndexOf(frag, "{") = -1 /\ IndexOf(frag, "}") > -1

ExcisedRuns(frag) == ExcisedChars(frag, StartsInDetMode(frag))

\* d_dict has "frag"; a missing "delim" is add_run(None), an empty run
AddExcisedDNode(d_dict) ==
    Ok(ExcisedRuns(NormalizeAngles(d_dict.frag))
       \o <<Plain(Get(d_dict, "delim", <<>>))>>)

-----------------------------------------------------------------------------
(* Lemma sub-elements (members of f.gdl).                                  *)

\* _add_continuing_sign_form; gdl_node has "v"
AddContinuingSignForm(gdl_node) ==
    Then(AddPreFragSymbols(gdl_node),
    Then(ConvertedRun(Convert2Or3Subscript(gdl_node.v), TRUE, FALSE),
         AddPostFragSymbols(gdl_node)))

\* _add_logogram with the italics of _add_continuing_sign_form
AddLogogramByCase(gdl_node) ==
    IF gdl_node.s = <<>> THEN Raise(<<>>, "AssertionError")
    ELSE Then(AddPreFragSymbols(gdl_node),
         Then(ConvertedRun(Convert2Or3Subscript(gdl_node.s), TRUE, FALSE),
              AddPostFragSymbols(gdl_node)))

\* _add_logogram; gdl_node has "s"
AddLogogram(gdl_node) ==
    IF gdl_node.s = <<>> THEN Raise(<<>>, "AssertionError")
    ELSE Then(AddPreFragSymbols(gdl_node),
         Then(ConvertedRun(Convert2Or3Subscript(gdl_node.s), FALSE, FALSE),
              AddPostFragSymbols(gdl_node)))

\* the form selected by lines 727-743: [bound, err, det]
DetForm(det_node) ==
    IF Has(det_node, "s") THEN [bound |-> TRUE, err |-> "", det |-> det_node.s]
    ELSE IF Has(det_node, "v") THEN [bound |-> TRUE, err |-> "", det |-> det_node.v]
    ELSE IF Has(det_node, "mods")
    THEN IF Has(det_node, "form")
         THEN [bound |-> TRUE, err |-> "", det |-> det_node.form]
         ELSE [bound |-> FALSE, err |-> "KeyError", det |-> <<>>]
    ELSE IF Has(det_node, "n")
    THEN IF Has(det_node, "form")
         THEN [bound |-> TRUE, err |-> "",
               det |-> IF det_node.form = <<"1">> THEN <<"m">> ELSE det_node.form]
         ELSE [bound |-> FALSE, err |-> "KeyError", det |-> <<>>]
    \* "Unknown DET type": det stays unbound and line 745 reads it
    ELSE [bound |-> FALSE, err |-> "UnboundLocalError", det |-> <<>>]

\* the determinative's run without line 747
DetRunPlain(form) ==
    IF ~form.bound THEN Raise(<<>>, form.err)
    ELSE ConvertedRun(Convert2Or3Subscript(form.det), FALSE, FALSE)

\* lines 745-747: the determinative's run
DetRun(form) ==
    IF ~form.bound THEN Raise(<<>>, form.err)
    ELSE ConvertedRun(Convert2Or3Subscript(form.det), FALSE, TRUE)

\* lines 722-753, for the inner form det_node
AddDetNode(det_node, add_dot_delim) ==
    Then(AddPreFragSymbols(det_node),
    Then(DetRun(DetForm(det_node)),
    Then(AddPostFragSymbols(det_node),
         Ok(IF add_dot_delim THEN <<Rn(<<".">>, FALSE, TRUE, FALSE)>> ELSE <<>>))))

\* _add_determinative
AddDeterminative(gdl_node, add_dot_delim) ==
    IF Get(gdl_node, "det", "") \notin {"semantic", "phonetic"}
    THEN Raise(<<>>, "AssertionError")
    ELSE IF ~Has(gdl_node, "pos") THEN Raise(<<>>, "KeyError")
    ELSE IF gdl_node.pos \notin {"pre", "post"} THEN Ok(<<>>)
    ELSE IF ~Has(gdl_node, "seq") THEN Raise(<<>>, "KeyError")
    ELSE IF gdl_node.seq = <<>> THEN Raise(<<>>, "IndexError")
    ELSE AddDetNode(gdl_node.seq[1], add_dot_delim)

\* _add_ellipsis
AddEllipsis(gdl_node) ==
    IF gdl_node.x # "ellipsis" THEN Raise(<<>>, "AssertionError")
    ELSE Then(AddPreFragSymbols(gdl_node),
              Then(Ok(<<Plain(EllipsisLit)>>), AddPostFragSymbols(gdl_node)))

\* lines 891-896
FractionGlyph(form) ==
    IF form = <<"1", "/", "2">> THEN FracHalfLit
    ELSE IF form = <<"1", "/", "3">> THEN FracThirdLit
    ELSE IF form = <<"2", "/", "3">> THEN FracTwoThirdsLit
    ELSE form

\* _add_number
AddNumber(gdl_node) ==
    Then(AddPreFragSymbols(gdl_node),
         IF ~Has(gdl_node, "form") THEN Raise(<<>>, "KeyError")
         ELSE Then(Ok(<<Plain(FractionGlyph(gdl_node.form))>>),
                   AddPostFragSymbols(gdl_node)))

\* the "q" branch (lines 571-578 and 850-857)
AddQualified(node_dict) ==
    AddExcisedDNode(IF Has(node_dict, "delim")
                    THEN [frag |-> Replace(node_dict.q, <<"|">>, <<>>),
                          delim |-> node_dict.delim]
                    ELSE [frag |-> Replace(node_dict.q, <<"|">>, <<>>)])

\* the "c" branch (lines 579-583 and 858-862): str + None is a TypeError
AddComposite(node_dict) ==
    IF ~Has(node_dict, "delim") THEN Raise(<<>>, "TypeError")
    ELSE Ok(<<Plain(Replace(node_dict.c, <<"|">>, <<>>) \o node_dict.delim)>>)

\* the "mods" branch (lines 584-592 and 863-872)
AddMods(node_dict) ==
    Then(AddPreFragSymbols(node_dict),
         IF ~Has(node_dict, "form") THEN Raise(<<>>, "KeyError")
         ELSE Then(Ok(<<Rn(node_dict.form, IsLower(node_dict.form), FALSE, FALSE)>>),
              Then(AddPostFragSymbols(node_dict),
                   Ok(<<Plain(Get(node_dict, "delim", <<>>))>>))))

\* _add_logogram_cluster: the for loop over the group, then the cluster's delim
RECURSIVE AddLogogramCluster(_)
RECURSIVE ClusterMembers(_)

\* line 841 with add_dot_delim=True
ClusterMemberDotted(logo_dict) ==
    IF Has(logo_dict, "s") THEN AddLogogram(logo_dict)
    ELSE IF Has(logo_dict, "det") THEN AddDeterminative(logo_dict, TRUE)
    ELSE IF Has(logo_dict, "gg") THEN AddLogogramCluster(logo_dict)
    ELSE Ok(<<>>)

ClusterMember(logo_dict) ==
    IF Has(logo_dict, "s") THEN AddLogogram(logo_dict)
    ELSE IF Has(logo_dict, "det") THEN AddDeterminative(logo_dict, FALSE)
    ELSE IF Has(logo_dict, "v") THEN AddContinuingSignForm(logo_dict)
    ELSE IF Has(logo_dict, "n") THEN AddNumber(logo_dict)
    ELSE IF Has(logo_dict, "gg") THEN AddLogogramCluster(logo_dict)
    ELSE IF Has(logo_dict, "x") THEN AddEllipsis(logo_dict)
    ELSE IF Has(logo_dict, "q") THEN AddQualified(logo_dict)
    ELSE IF Has(logo_dict, "c") THEN AddComposite(logo_dict)
    ELSE IF Has(logo_dict, "mods") THEN AddMods(logo_dict)
    ELSE Ok(<<>>)

ClusterMembers(group) ==
    IF group = <<>> THEN Ok(<<>>)
    ELSE Then(ClusterMember(Head(group)), ClusterMembers(Tail(group)))

AddLogogramCluster(gdl_node) ==
    IF ~Has(gdl_node, "group") THEN Raise(<<>>, "KeyError")
    ELSE Then(ClusterMembers(gdl_node.group),
              Ok(<<Plain(Get(gdl_node, "delim", <<>>))>>))

\* line 557 taken for every determinative
NextIsDetAlways(gdl_list, index) == TRUE

\* one iteration of the loop of parse_l_node (lines 546-594)
NextIsDet(gdl_list, index) ==
    Len(gdl_list) > index /\ Has(gdl_list[index + 1], "det")

GdlNode(node_dict, next_is_det) ==
    IF Has(node_dict, "s") THEN AddLogogram(node_dict)
    ELSE IF Has(node_dict, "v") THEN AddContinuingSignForm(node_dict)
    ELSE IF Has(node_dict, "det") THEN AddDeterminative(node_dict, next_is_det)
    ELSE IF Has(node_dict, "gg") THEN AddLogogramCluster(node_dict)
    ELSE IF Has(node_dict, "x") THEN AddEllipsis(node_dict)
    ELSE IF Has(node_dict, "n") THEN AddNumber(node_dict)
    ELSE IF Has(node_dict, "q") THEN AddQualified(node_dict)
    ELSE IF Has(node_dict, "c") THEN AddComposite(node_dict)
    ELSE IF Has(node_dict, "mods") THEN AddMods(node_dict)
    ELSE Ok(<<>>)

GdlMember(gdl_list, index) == GdlNode(gdl_list[index], NextIsDet(gdl_list, index))

RECURSIVE GdlLoop(_, _)
GdlLoop(gdl_list, index) ==
    IF index > Len(gdl_list) THEN Ok(<<>>)
    ELSE Then(GdlMember(gdl_list, index), GdlLoop(gdl_list, index + 1))

\* _add_aramaic_frag
AramaicRuns(frag) ==
    [i \in 1..Len(frag) |-> Rn(<<frag[i]>>, IsAlpha(frag[i]), FALSE, FALSE)]

AddAramaicFrag(l_node) ==
    Ok(AramaicRuns(Get(l_node, "frag", <<>>)) \o <<Plain(<<" ">>)>>)

-----------------------------------------------------------------------------
(* The remote page (requests.get + BeautifulSoup).                         *)

NoSoup == [loaded |-> FALSE]

\* the children the loop of line 627 iterates: those of parent.a when the
\* span has an <a>, those of the span otherwise
Snippets(parent) == IF Has(parent, "a") THEN parent.a ELSE parent.children

\* the body of the loop of lines 627-644
ScrapeSnippet(snippet) ==
    IF snippet.kind = "Tag"
    THEN IF snippet.text = <<"?">> THEN Ok(<<Plain(QueriedLit)>>)
         ELSE IF snippet.name = "sup" THEN Ok(<<Rn(snippet.text, FALSE, TRUE, FALSE)>>)
         ELSE IF snippet.name = "span" /\ ~Has(snippet, "class")
         THEN Raise(<<Plain(snippet.text)>>, "KeyError")
         ELSE IF snippet.name = "span" /\ "akk" \in snippet.class
         THEN Ok(<<Rn(snippet.text, TRUE, FALSE, FALSE)>>)
         ELSE Ok(<<Plain(snippet.text)>>)
    ELSE IF snippet.kind = "NavigableString" THEN Ok(<<Plain(snippet.text)>>)
    ELSE Ok(<<>>)

RECURSIVE ScrapeSnippets(_)
ScrapeSnippets(snippets) ==
    IF snippets = <<>> THEN Ok(<<>>)
    ELSE Then(ScrapeSnippet(Head(snippets)), ScrapeSnippets(Tail(snippets)))

\* lines 616-645 on the parsed page
ScrapePage(ref_id, page) ==
    IF ref_id \in DOMAIN page
    THEN Then(ScrapeSnippets(Snippets(page[ref_id])), Ok(<<Plain(<<" ">>)>>))
    ELSE Ok(<<>>)

Scraped(res, new_soup) == [runs |-> res.runs, err |-> res.err, soup |-> new_soup]

\* the page requested at every call and never kept
ScrapeIncompleteLNodeUncached(ref_id, cur_soup, response) ==
    IF response.raises # "" THEN Scraped(Raise(<<>>, response.raises), cur_soup)
    ELSE Scraped(ScrapePage(ref_id, response.page), cur_soup)

\* _scrape_incomplete_l_node: [runs, err, soup].  response is what
\* requests.get does when it is called: it returns a page or raises.
ScrapeIncompleteLNode(ref_id, cur_soup, response) ==
    IF cur_soup.loaded THEN Scraped(ScrapePage(ref_id, cur_soup.page), cur_soup)
    ELSE IF response.raises # "" THEN Scraped(Raise(<<>>, response.raises), cur_soup)
    ELSE Scraped(ScrapePage(ref_id, response.page),
                 [loaded |-> TRUE, page |-> response.page])

-----------------------------------------------------------------------------
(* The Document.                                                           *)

AddParagraph == [op |-> "add_paragraph"]
AddRun(p, run) == [op |-> "add_run", p |-> p, run |-> run]

\* runs added through one paragraph reference
RunsOn(p, runs) == [i \in 1..Len(runs) |-> AddRun(p, runs[i])]

RECURSIVE Apply(_, _)
Apply(d, ops) ==
    IF ops = <<>> THEN d
    ELSE LET o == Head(ops)
         IN  Apply(IF o.op = "add_paragraph" THEN Append(d, <<>>)
                   ELSE [d EXCEPT ![o.p] = Append(@, o.run)],
                   Tail(ops))

\* the text of a paragraph: the concatenation of its runs' text
ParagraphText(par) == Concat([i \in 1..Len(par) |-> par[i].text])

-----------------------------------------------------------------------------
(* Node handlers.  Each returns the Document operations it performed, the  *)
(* exception that escaped it ("" when none) and the fields it assigned.    *)

\* membership test of line 512
\* the membership test dropped
AlreadyAddedDropped(ref, reflist) == FALSE

AlreadyAdded(ref, reflist) == \E i \in 1..Len(reflist) : reflist[i] = ref

\* what parse_l_node returns: [ops, err, l_reflist, soup, has_aramaic]
LResult(res, last_paragraph, reflist, new_soup, aramaic) ==
    [ops |-> RunsOn(last_paragraph, res.runs), err |-> res.err,
     l_reflist |-> reflist, soup |-> new_soup, has_aramaic |-> aramaic]

LScraped(sc, last_paragraph, reflist) ==
    LResult(sc, last_paragraph, reflist, sc.soup, FALSE)

\* the fragment as one run, then a space
AddEnglishFragVerbatim(l_node) ==
    Ok(<<Plain(Get(l_node, "frag", <<>>)), Plain(<<" ">>)>>)

\* lines 525-527: "Not adding English fragment..."
AddEnglishFrag(l_node) == Ok(<<>>)

\* lines 518-595, once the ref is recorded
RenderLNode(l_dict, last_paragraph, reflist, cur_soup, response) ==
    IF last_paragraph = 0 THEN LResult(Raise(<<>>, "IndexError"), 0, reflist, cur_soup, FALSE)
    ELSE IF ~Has(l_dict, "f")
    THEN LResult(Raise(<<>>, "AttributeError"), 0, reflist, cur_soup, FALSE)
    ELSE IF Get(l_dict.f, "lang", "") = "arc"
    THEN LResult(AddAramaicFrag(l_dict), last_paragraph, reflist, cur_soup, TRUE)
    ELSE IF Get(l_dict.f, "lang", "") = "qcu-949"
    THEN LResult(AddEnglishFrag(l_dict), last_paragraph, reflist, cur_soup, FALSE)
    ELSE IF Get(l_dict.f, "gdl", <<>>) = <<>>
    THEN IF ~Has(l_dict, "frag")
         THEN LResult(Raise(<<>>, "KeyError"), 0, reflist, cur_soup, FALSE)
         ELSE LScraped(ScrapeIncompleteLNode(l_dict.ref, cur_soup, response),
                       last_paragraph, reflist)
    ELSE LResult(Then(GdlLoop(l_dict.f.gdl, 1),
                      Ok(<<Plain(Get(l_dict.f, "delim", <<>>))>>)),
                 last_paragraph, reflist, cur_soup, FALSE)

\* parse_l_node
\* the reference id recorded after rendering, and only when runs were added
RecordIfRendered(res, ref, reflist) ==
    [res EXCEPT !.l_reflist = IF res.ops = <<>> THEN reflist ELSE Append(reflist, ref)]

ParseLNodeRecordAfter(l_dict, d, reflist, cur_soup, response) ==
    IF ~Has(l_dict, "ref")
    THEN LResult(Raise(<<>>, "KeyError"), 0, reflist, cur_soup, FALSE)
    ELSE IF AlreadyAdded(l_dict.ref, reflist)
    THEN LResult(Ok(<<>>), 0, reflist, cur_soup, FALSE)
    ELSE RecordIfRendered(RenderLNode(l_dict, Len(d), reflist, cur_soup, response),
                          l_dict.ref, reflist)

ParseLNode(l_dict, d, reflist, cur_soup, response) ==
    IF ~Has(l_dict, "ref")
    THEN LResult(Raise(<<>>, "KeyError"), 0, reflist, cur_soup, FALSE)
    ELSE IF AlreadyAdded(l_dict.ref, reflist)
    THEN LResult(Ok(<<>>), 0, reflist, cur_soup, FALSE)
    ELSE RenderLNode(l_dict, Len(d), Append(reflist, l_dict.ref), cur_soup, response)

\* only an empty paragraph or a paragraph that is a header word is skipped
SkipsLineStartExact(p_text) ==
    p_text \in {<<>>, TextHeader, ObverseHeader, ReverseHeader}

\* the test of lines 373-376 on the text of the last paragraph
SkipsLineStart(p_text) ==
    \/ Contains(p_text, TextHeader)
    \/ Contains(p_text, ObverseHeader)
    \/ Contains(p_text, ReverseHeader)
    \/ Contains(p_text, ColumnWord)
    \/ Strip(p_text, Whitespace) = <<>>

\* parse_d_node, by branch
LineStart(d) ==
    IF Len(d) = 0 THEN <<>>      \* IndexError, caught at line 382
    ELSE IF SkipsLineStart(ParagraphText(Last(d))) THEN <<>>
    ELSE <<AddParagraph>>

\* the header written through the first paragraph added
ObverseWrongParagraph(d) ==
    IF Len(d) + 1 >= 2
    THEN <<AddParagraph, AddParagraph,
           AddRun(Len(d) + 1, Plain(ObverseHeader)), AddParagraph>>
    ELSE <<AddParagraph, AddRun(Len(d) + 1, Plain(ObverseHeader)), AddParagraph>>

\* the test of line 392 never true
ObverseNeverGap(d) ==
    <<AddParagraph, AddRun(Len(d) + 1, Plain(ObverseHeader)), AddParagraph>>

\* the extra paragraph added whatever the document holds, as for reverse
ObverseAlwaysGap(d) ==
    <<AddParagraph, AddParagraph, AddRun(Len(d) + 2, Plain(ObverseHeader)), AddParagraph>>

Obverse(d) ==
    IF Len(d) + 1 >= 2
    THEN <<AddParagraph, AddParagraph,
           AddRun(Len(d) + 2, Plain(ObverseHeader)), AddParagraph>>
    ELSE <<AddParagraph, AddRun(Len(d) + 1, Plain(ObverseHeader)), AddParagraph>>

Reverse(d) ==
    <<AddParagraph, AddParagraph, AddRun(Len(d) + 2, Plain(ReverseHeader)), AddParagraph>>

DResult(ops, err, found) == [ops |-> ops, err |-> err, found |-> found]

Punct(d_dict, d) ==
    IF Len(d) = 0 THEN DResult(<<>>, "IndexError", FALSE)
    ELSE IF ~Has(d_dict, "frag") THEN DResult(<<>>, "KeyError", FALSE)
    ELSE DResult(RunsOn(Len(d), <<Plain(d_dict.frag), Plain(Get(d_dict, "delim", <<>>))>>),
                 "", FALSE)

Excised(d_dict, d) ==
    IF Len(d) = 0 THEN DResult(<<>>, "AssertionError", FALSE)
    ELSE DResult(RunsOn(Len(d), AddExcisedDNode(d_dict).runs), "", FALSE)

\* parse_d_node: [ops, err, found]
ParseDNode(d_dict, d) ==
    IF ~Has(d_dict, "type") THEN DResult(<<>>, "KeyError", FALSE)
    ELSE IF d_dict.type = "line-start" THEN DResult(LineStart(d), "", FALSE)
    ELSE IF d_dict.type = "obverse" THEN DResult(Obverse(d), "", TRUE)
    ELSE IF d_dict.type = "reverse" THEN DResult(Reverse(d), "", TRUE)
    ELSE IF d_dict.type = "punct" THEN Punct(d_dict, d)
    ELSE IF d_dict.type = "excised" /\ Has(d_dict, "frag") THEN Excised(d_dict, d)
    ELSE DResult(<<>>, "", FALSE)

\* the header without the blank paragraph after it
PlaceholderHeaderNoBlank(d) ==
    <<AddParagraph, AddRun(Len(d) + 1, Plain(TextHeader))>>

\* traverse_c_node up to its for loop: [ops, err, found, enter]
PlaceholderHeader(d) ==
    <<AddParagraph, AddRun(Len(d) + 1, Plain(TextHeader)), AddParagraph>>

CResult(ops, err, found, enter) ==
    [ops |-> ops, err |-> err, found |-> found, enter |-> enter]

\* the header state not consulted
NeedsPlaceholderAlways(c_dict, found) == c_dict.type = "discourse"

\* lines 329-334
NeedsPlaceholder(c_dict, found) == c_dict.type = "discourse" /\ ~found

TraverseCNode(c_dict, d, found) ==
    IF Get(c_dict, "id", "") = "" THEN CResult(<<>>, "", found, FALSE)
    ELSE IF ~Has(c_dict, "type") THEN CResult(<<>>, "KeyError", found, FALSE)
    ELSE CResult(IF NeedsPlaceholder(c_dict, found) THEN PlaceholderHeader(d) ELSE <<>>,
                 IF Has(c_dict, "cdl") THEN "" ELSE "KeyError",
                 found \/ NeedsPlaceholder(c_dict, found),
                 Has(c_dict, "cdl"))

-----------------------------------------------------------------------------
(* Inputs: the records main() iterates over.                               *)

Sp == <<" ">>

\* The nodes by name.  A tree holds a leaf as [leaf |-> name]; the walk
\* reads the node itself (Resolve) when it reaches it.  lA and lB carry the
\* same ref; lUnknownSub holds a sub-element of no known kind; lNoGdl has no
\* f.gdl and is rendered from the remote page; dColumn is a punct whose
\* text holds a header word; the last rows are malformed or unknown elements.
NodeOf ==
    [dLineStart |->
        [node |-> "d", type |-> "line-start"],
     dObverse |->
        [node |-> "d", type |-> "obverse"],
     dReverse |->
        [node |-> "d", type |-> "reverse"],
     dPunct |->
        [node |-> "d", type |-> "punct", frag |-> <<"*">>, delim |-> Sp],
     dExcised |->
        [node |-> "d", type |-> "excised", frag |-> <<"<", "<", "a", ">", ">">>, delim |-> Sp],
     dUnknown |->
        [node |-> "d", type |-> "zz"],
     dColumn |->
        [node |-> "d", type |-> "punct", frag |-> <<"c", "o", "l", "u", "m", "n", "s">>],
     lA |->
        [node |-> "l", ref |-> "r1", frag |-> <<"a", "-", "n", "a">>, f |-> [lang |-> "akk", delim |-> Sp, gdl |-> << [v |-> <<"a">>, delim |-> <<"-">>], [v |-> <<"n", "a">>] >>]],
     lB |->
        [node |-> "l", ref |-> "r1", frag |-> <<"K", "I">>, f |-> [lang |-> "akk", delim |-> Sp, gdl |-> << [s |-> <<"K", "I">>, role |-> "logo"] >>]],
     lUnknownSub |->
        [node |-> "l", ref |-> "r2", frag |-> <<"x">>, f |-> [lang |-> "akk", delim |-> Sp, gdl |-> << [zz |-> <<"x">>] >>]],
     lNoGdl |->
        [node |-> "l", ref |-> "r3", frag |-> <<"U", "D">>, f |-> [lang |-> "akk", form |-> <<"U", "D">>]],
     lEnglish |->
        [node |-> "l", ref |-> "r2", frag |-> <<"k", "i", "n">>, f |-> [lang |-> "qcu-949", form |-> <<"k", "i", "n">>]],
     lNoGdlB |->
        [node |-> "l", ref |-> "r9", frag |-> <<"M", "U">>, f |-> [lang |-> "akk", form |-> <<"M", "U">>]],
     lR2 |->
        [node |-> "l", ref |-> "r2", frag |-> <<"b">>, f |-> [lang |-> "akk", delim |-> Sp, gdl |-> << [v |-> <<"b">>] >>]],
     lR3 |->
        [node |-> "l", ref |-> "r3", frag |-> <<"B">>, f |-> [lang |-> "akk", delim |-> Sp, gdl |-> << [s |-> <<"B">>, role |-> "logo"] >>]],
     lNoRef |->
        [node |-> "l", frag |-> <<"a">>, f |-> [lang |-> "akk", gdl |-> << [v |-> <<"a">>] >>]],
     lDetNoSeq |->
        [node |-> "l", ref |-> "r4", frag |-> <<"d">>, f |-> [lang |-> "akk", gdl |-> << [det |-> "semantic", pos |-> "pre"] >>]],
     lDetBadCat |->
        [node |-> "l", ref |-> "r5", frag |-> <<"d">>, f |-> [lang |-> "akk", gdl |-> << [det |-> "zz", pos |-> "pre", seq |-> << [v |-> <<"d">>] >>] >>]],
     lDetBadForm |->
        [node |-> "l", ref |-> "r6", frag |-> <<"d">>, f |-> [lang |-> "akk", gdl |-> << [det |-> "semantic", pos |-> "pre", seq |-> << [zz |-> <<"d">>] >>] >>]],
     zNode |->
        [node |-> "z"],
     cNoId |->
        [node |-> "c", type |-> "sentence", cdl |-> <<[leaf |-> "lB"]>>],
     cNoCdl |->
        [node |-> "c", id |-> "c9", type |-> "sentence"]]

Leaf(name) == [leaf |-> name]

Resolve(n) == IF Has(n, "leaf") THEN NodeOf[n.leaf] ELSE n

WalkNodes == {Leaf(nm) : nm \in {"dLineStart", "dObverse", "dReverse", "dPunct",
                                 "dExcised", "dColumn", "dUnknown", "zNode",
                                 "lA", "lB", "lUnknownSub", "lNoGdl"}}

ErrNodes == {Leaf(nm) : nm \in {"lA", "dUnknown", "zNode", "lUnknownSub", "lNoGdl",
                                "lNoRef", "lDetNoSeq", "lDetBadCat", "lDetBadForm",
                                "cNoId", "cNoCdl", "lEnglish"}}

NodeSeqs(nodes) == UNION {[1..m -> nodes] : m \in 0..MaxNodes}

Chunk(id, type, children) == [node |-> "c", id |-> id, type |-> type, cdl |-> children]

\* a text chunk holding seq[1..s], an inner chunk of seq[s+1..e], and seq[e+1..]
Tree(seq, s, e, inner) ==
    << Chunk("c1", "text",
             SubSeq(seq, 1, s)
             \o << Chunk("c2", inner, SubSeq(seq, s + 1, e)) >>
             \o SubSeq(seq, e + 1, Len(seq))) >>

Shapes(seq) ==
    {sh \in (0..Len(seq)) \X (0..Len(seq)) :
        sh[1] <= sh[2] /\ Len(seq) - sh[2] <= MaxPost}

Trees(nodes) ==
    UNION {{Tree(seq, sh[1], sh[2], inner) : sh \in Shapes(seq), inner \in {"discourse", "sentence"}} :
           seq \in NodeSeqs(nodes)}

Loaded(tree) == [textid |-> "Q1", project |-> "p", type |-> "cdl", cdl |-> tree,
                 docx_name |-> "Q1", original_path |-> "Q1.json"]

\* records that are not a well-formed cdl tree
OddRecords ==
    { [original_path |-> "Q0.json"],                       \* the loader failed
      [textid |-> "Q2", project |-> "p", type |-> "other", docx_name |-> "Q2",
       cdl |-> Tree(<<Leaf("lA")>>, 0, 1, "discourse")],
      [textid |-> "Q6", project |-> "p", type |-> "catalogue", docx_name |-> "Q6"],
      [textid |-> "Q3", project |-> "p", docx_name |-> "Q3",
       cdl |-> Tree(<<Leaf("lA")>>, 0, 1, "discourse")],
      [textid |-> "Q4", type |-> "cdl", docx_name |-> "Q4", cdl |-> <<>>],
      [textid |-> "Q5", project |-> "p", type |-> "cdl", docx_name |-> "Q5"] }

Records(nodes) == OddRecords \cup {Loaded(tree) : tree \in Trees(nodes)}

\* what requests.get can do
Responses ==
    { [raises |-> "ConnectionError"], [raises |-> "Timeout"],
      \* a page without the span of r3, and a page with it
      [raises |-> "", page |-> [r0 |-> [children |-> <<>>]]],
      [raises |-> "",
       page |-> [r3 |-> [a |-> << [kind |-> "Tag", name |-> "span",
                                   class |-> {"sign", "sux"},
                                   text |-> <<"U", "D">>] >>]]] }

-----------------------------------------------------------------------------
(* The state machine.                                                      *)

NoRecord == [original_path |-> ""]

Step(kind) == [kind |-> kind, n |-> 0, nops |-> 0, nruns |-> 0, tail |-> TRUE, err |-> ""]

\* a node without its children, for the history
Trim(node) == [k \in (DOMAIN node) \ {"cdl"} |-> node[k]]

\* every add_run of ops goes to the paragraph that is last when it is applied
RECURSIVE TailOnly(_, _)
TailOnly(n, ops) ==
    IF ops = <<>> THEN TRUE
    ELSE LET isPar == Head(ops).op = "add_paragraph"
         IN  /\ isPar \/ Head(ops).p = n
             /\ TailOnly(IF isPar THEN n + 1 ELSE n, Tail(ops))

NumRuns(ops) == Cardinality({i \in 1..Len(ops) : ops[i].op = "add_run"})

\* history of one handler call: the node, the paragraphs before it, what it did
Handled(node, d, res) ==
    [kind |-> "node", node |-> Trim(node), n |-> Len(d),
     nops |-> Len(res.ops), nruns |-> NumRuns(res.ops),
     tail |-> TailOnly(Len(d), res.ops), err |-> res.err]

\* the fields of a JsonParser (__init__), its Document and its position
Idle ==
    [pc |-> "main", cdl_dict |-> NoRecord, stack |-> <<>>, doc |-> <<>>,
     l_reflist |-> <<>>, found_obverse_or_reverse_d_node |-> FALSE,
     soup |-> NoSoup, has_aramaic |-> FALSE, saved |-> FALSE,
     lastOps |-> Step("init"), lvisits |-> <<>>]

Init ==
    /\ pc = "main"
    /\ cdl_dict = NoRecord
    /\ stack = <<>>
    /\ doc = <<>>
    /\ l_reflist = <<>>
    /\ found_obverse_or_reverse_d_node = FALSE
    /\ soup = NoSoup
    /\ has_aramaic = FALSE
    /\ saved = FALSE
    /\ lastOps = Step("init")
    /\ lvisits = <<>>
    /\ parked = Idle

\* main(), lines 1163-1164: the next record gets a new JsonParser (__init__)
NewParser(records) ==
    /\ pc = "main"
    /\ \E json_dict \in records : cdl_dict' = json_dict
    /\ pc' = "run"
    /\ stack' = <<>>
    /\ doc' = <<>>
    /\ l_reflist' = <<>>
    /\ found_obverse_or_reverse_d_node' = FALSE
    /\ soup' = NoSoup
    /\ has_aramaic' = FALSE
    /\ saved' = FALSE
    /\ lastOps' = Step("new")
    /\ lvisits' = <<>>
    /\ UNCHANGED parked

\* run() returns: doc and the parser are not used again
Return ==
    /\ pc' = "main"
    /\ cdl_dict' = NoRecord
    /\ stack' = <<>>
    /\ doc' = <<>>
    /\ l_reflist' = <<>>
    /\ found_obverse_or_reverse_d_node' = FALSE
    /\ soup' = NoSoup
    /\ has_aramaic' = FALSE
    /\ lvisits' = <<>>

\* run() up to the call of parse_json (lines 196-203)
Run ==
    /\ pc = "run"
    /\ IF Get(cdl_dict, "textid", "") = ""
       THEN Return /\ saved' = FALSE /\ lastOps' = Step("skipped")
       ELSE /\ UNCHANGED <<cdl_dict, doc, l_reflist, found_obverse_or_reverse_d_node,
                           soup, has_aramaic, saved, lvisits>>
            /\ IF ~Has(cdl_dict, "project")
               THEN pc' = "crashed" /\ stack' = <<>> /\ lastOps' = [Step("run") EXCEPT !.err = "KeyError"]
               ELSE pc' = "parse" /\ stack' = <<>> /\ lastOps' = Step("run")
    /\ UNCHANGED parked

\* the root type not tested
IsCdlAny(json_dict) == TRUE

\* the test of line 218
IsCdl(json_dict) == json_dict.type = "cdl"

\* parse_json up to its for loop (lines 215-224)
ParseJson ==
    /\ pc = "parse"
    /\ UNCHANGED <<cdl_dict, doc, l_reflist, found_obverse_or_reverse_d_node,
                   soup, has_aramaic, saved, lvisits>>
    /\ IF ~Has(cdl_dict, "type")
       THEN pc' = "crashed" /\ stack' = <<>> /\ lastOps' = [Step("parse") EXCEPT !.err = "KeyError"]
       ELSE IF ~IsCdl(cdl_dict)
       THEN pc' = "save" /\ stack' = <<>> /\ lastOps' = Step("not-cdl")
       ELSE IF ~Has(cdl_dict, "cdl")
       THEN pc' = "crashed" /\ stack' = <<>> /\ lastOps' = [Step("parse") EXCEPT !.err = "KeyError"]
       ELSE /\ stack' = IF cdl_dict.cdl = <<>> THEN <<>> ELSE <<cdl_dict.cdl>>
            /\ pc' = IF cdl_dict.cdl = <<>> THEN "save" ELSE "walk"
            /\ lastOps' = Step("parse")
    /\ UNCHANGED parked

\* the node the innermost for loop is at
Top == Last(stack)
Node == Resolve(Head(Top))
AtRoot == Len(stack) = 1

\* the loops after the current node is done: finished loops return
RECURSIVE Unwind(_)
Unwind(st) ==
    IF st = <<>> THEN st
    ELSE IF Last(st) = <<>> THEN Unwind(SubSeq(st, 1, Len(st) - 1))
    ELSE st

Advance(st) == [st EXCEPT ![Len(st)] = Tail(@)]

Continue(st) ==
    /\ stack' = Unwind(st)
    /\ pc' = IF Unwind(st) = <<>> THEN "save" ELSE "walk"

\* what a handler call leaves behind
NodeDone(node, res) ==
    /\ doc' = Apply(doc, res.ops)
    /\ lastOps' = Handled(node, doc, res)
    /\ IF res.err # "" THEN pc' = "crashed" /\ stack' = <<>>
       ELSE IF Has(res, "enter") /\ res.enter
       THEN Continue(Append(Advance(stack), Resolve(node).cdl))
       ELSE Continue(Advance(stack))

CNodeDone(node, res) ==
    /\ NodeDone(node, res)
    /\ found_obverse_or_reverse_d_node' = res.found

\* traverse_c_node, called by parse_json (line 226) or by itself (line 338)
TraverseCNodeStep ==
    /\ pc = "walk"
    /\ AtRoot \/ (Has(Node, "node") /\ Node.node = "c")
    /\ CNodeDone(Head(Top), TraverseCNode(Node, doc, found_obverse_or_reverse_d_node))
    /\ UNCHANGED <<cdl_dict, l_reflist, soup, has_aramaic, saved, lvisits, parked>>

DNodeDone(node, res) ==
    /\ NodeDone(node, res)
    /\ found_obverse_or_reverse_d_node' = (found_obverse_or_reverse_d_node \/ res.found)

\* parse_d_node, called at line 340
ParseDNodeStep ==
    /\ pc = "walk"
    /\ ~AtRoot /\ Has(Node, "node") /\ Node.node = "d"
    /\ DNodeDone(Head(Top), ParseDNode(Node, doc))
    /\ UNCHANGED <<cdl_dict, l_reflist, soup, has_aramaic, saved, lvisits, parked>>

LNodeDone(node, res) ==
    /\ NodeDone(node, res)
    /\ l_reflist' = res.l_reflist
    /\ soup' = res.soup
    /\ has_aramaic' = (has_aramaic \/ res.has_aramaic)
    /\ lvisits' = Append(lvisits, [node |-> node,
                                   ref |-> Get(Resolve(node), "ref", ""),
                                   nops |-> Len(res.ops),
                                   changed |-> Apply(doc, res.ops) # doc])

\* parse_l_node, called at line 342
ParseLNodeStep ==
    /\ pc = "walk"
    /\ ~AtRoot /\ Has(Node, "node") /\ Node.node = "l"
    /\ \E response \in Responses :
           LNodeDone(Head(Top), ParseLNode(Node, doc, l_reflist, soup, response))
    /\ UNCHANGED <<cdl_dict, found_obverse_or_reverse_d_node, saved, parked>>

\* the else branch of lines 343-344
UnknownNodeStep ==
    /\ pc = "walk"
    /\ ~AtRoot /\ Has(Node, "node") /\ Node.node \notin {"c", "d", "l"}
    /\ NodeDone(Head(Top), [ops |-> <<>>, err |-> ""])
    /\ UNCHANGED <<cdl_dict, l_reflist, found_obverse_or_reverse_d_node,
                   soup, has_aramaic, saved, lvisits, parked>>

\* the text save_docx tests (lines 239-244)
AllText(d) == Concat([i \in 1..Len(d) |-> ParagraphText(d[i])])

WorthSaving(d) ==
    LET p_text == Strip(AllText(d), Whitespace)
    IN  ~(p_text = <<>> \/ p_text = ObverseHeader \/ p_text = TextHeader)

\* print_doc and save_docx (lines 205-206), then run() returns
SaveDocx ==
    /\ pc = "save"
    /\ saved' = (WorthSaving(doc) /\ Has(cdl_dict, "docx_name"))
    /\ lastOps' = Step("save")
    /\ Return
    /\ UNCHANGED parked

Next(records) ==
    \/ NewParser(records)
    \/ Run
    \/ ParseJson
    \/ TraverseCNodeStep
    \/ ParseDNodeStep
    \/ ParseLNodeStep
    \/ UnknownNodeStep
    \/ SaveDocx

WalkNext == Next(Records(WalkNodes))
ErrNext == Next(Records(ErrNodes))

\* the walk over well-formed trees
Spec == Init /\ [][WalkNext]_vars

\* the walk over trees with malformed and unknown elements
SpecErr == Init /\ [][ErrNext]_vars

\* the walk over trees of Lemmas without sub-elements (two reference ids),
\* an English gloss, and Lemmas that repeat their reference ids
FetchNext ==
    Next(Records({Leaf(nm) : nm \in {"lNoGdl", "lNoGdlB", "lEnglish", "lR2", "lR3",
                                      "lUnknownSub", "dLineStart", "zNode"}}))

SpecFetch == Init /\ [][FetchNext]_vars

-----------------------------------------------------------------------------
(* Two JsonParsers whose walks interleave.  Every field the handlers read  *)
(* or write belongs to the instance (self.*, lines 175-190) or is local to *)
(* parse_json (doc, line 215), so a switch carries all of it along.        *)

\* nodes of a tree
MaxPairNodes == 2

\* l_reflist as an attribute of the class: one list for both parsers
SwitchSharedReflist ==
    /\ parked' = [pc |-> pc, cdl_dict |-> cdl_dict, stack |-> stack, doc |-> doc,
                  l_reflist |-> l_reflist,
                  found_obverse_or_reverse_d_node |-> found_obverse_or_reverse_d_node,
                  soup |-> soup, has_aramaic |-> has_aramaic, saved |-> saved,
                  lastOps |-> lastOps, lvisits |-> lvisits]
    /\ pc' = parked.pc
    /\ cdl_dict' = parked.cdl_dict
    /\ stack' = parked.stack
    /\ doc' = parked.doc
    /\ found_obverse_or_reverse_d_node' = parked.found_obverse_or_reverse_d_node
    /\ soup' = parked.soup
    /\ has_aramaic' = parked.has_aramaic
    /\ saved' = parked.saved
    /\ lastOps' = parked.lastOps
    /\ lvisits' = parked.lvisits
    /\ UNCHANGED l_reflist

\* the running parser is suspended between two handler calls and the other
\* one goes on
Switch ==
    /\ parked' = [pc |-> pc, cdl_dict |-> cdl_dict, stack |-> stack, doc |-> doc,
                  l_reflist |-> l_reflist,
                  found_obverse_or_reverse_d_node |-> found_obverse_or_reverse_d_node,
                  soup |-> soup, has_aramaic |-> has_aramaic, saved |-> saved,
                  lastOps |-> lastOps, lvisits |-> lvisits]
    /\ pc' = parked.pc
    /\ cdl_dict' = parked.cdl_dict
    /\ stack' = parked.stack
    /\ doc' = parked.doc
    /\ l_reflist' = parked.l_reflist
    /\ found_obverse_or_reverse_d_node' = parked.found_obverse_or_reverse_d_node
    /\ soup' = parked.soup
    /\ has_aramaic' = parked.has_aramaic
    /\ saved' = parked.saved
    /\ lastOps' = parked.lastOps
    /\ lvisits' = parked.lvisits

\* trees of Lemmas sharing the reference id r1 and obverse nodes, some of
\* them before the discourse chunk, with a node of unknown tag at the end
PairRecords ==
    UNION {{Loaded(Tree(seq \o <<Leaf("zNode")>>, s, Len(seq), "discourse")) :
               s \in {k \in {0, 1} : k <= Len(seq)}} :
           seq \in UNION {[1..m -> {Leaf("lA"), Leaf("lB"), Leaf("dObverse")}] :
                             m \in 0..MaxPairNodes}}

PairNext == Next(PairRecords) \/ Switch

\* two walks, interleaved in every order
SpecPair == Init /\ [][PairNext]_vars

-----------------------------------------------------------------------------
(* Records holding one Lemma, for the renderers of its sub-elements.       *)

\* characters of a sign
MaxSignLen == 3

Lemma(ref, gdl) ==
    [node |-> "l", ref |-> ref, frag |-> <<"x">>,
     f |-> [lang |-> "akk", delim |-> Sp, gdl |-> gdl]]

\* the Lemma in a discourse chunk, followed by a line-start and a node of
\* unknown tag
LemmaTree(l) == Tree(<<l, Leaf("dLineStart"), Leaf("zNode")>>, 0, 1, "discourse")

\* signs: strings of a consonant, a lower-case and an upper-case vowel and
\* the subscript digits 1, 2, 3
SignRecords ==
    {Loaded(LemmaTree(Lemma("r1", << [v |-> sign] >>))) :
        sign \in UNION {[1..n -> {"b", "i", "U", "U+2081", "U+2082", "U+2083"}] :
                           n \in 0..MaxSignLen}}

SignNext == Next(SignRecords)

\* the walk over Lemmas holding one SignForm
SpecSign == Init /\ [][SignNext]_vars

-----------------------------------------------------------------------------
(* The tree of the record being rendered, as the walk reads it.            *)

\* the nodes the for loops of traverse_c_node reach, in the order they
\* reach them (a chunk without id or child list is not entered)
RECURSIVE DocumentOrder(_)
DocumentOrder(nodes) ==
    IF nodes = <<>> THEN <<>>
    ELSE LET n == Resolve(Head(nodes))
         IN  <<Trim(n)>>
             \o (IF n.node = "c" /\ Get(n, "id", "") # "" /\ Has(n, "cdl")
                 THEN DocumentOrder(n.cdl) ELSE <<>>)
             \o DocumentOrder(Tail(nodes))

Visited ==
    IF Has(cdl_dict, "cdl") /\ Get(cdl_dict, "type", "") = "cdl"
    THEN DocumentOrder(cdl_dict.cdl) ELSE <<>>

DiscourseAt ==
    {i \in DOMAIN Visited : Visited[i].node = "c" /\ Get(Visited[i], "type", "") = "discourse"}

DAt == {i \in DOMAIN Visited : Visited[i].node = "d"}

ObvRevAt == {i \in DAt : Get(Visited[i], "type", "") \in {"obverse", "reverse"}}

FirstD == CHOOSE i \in DAt : \A j \in DAt : i <= j

FirstDIsObverse == DAt # {} /\ Get(Visited[FirstD], "type", "") = "obverse"

DiscourseBeforeFirstD == \E i \in DiscourseAt : i < FirstD

InWalk == pc \in {"walk", "save", "crashed"}

TextParagraphs(d) == {i \in 1..Len(d) : ParagraphText(d[i]) = TextHeader}

\* the handler call that has just returned
LastNode == Resolve(lastOps.node)

Did(tag) == lastOps.kind = "node" /\ LastNode.node = tag

DidD(type) == Did("d") /\ Get(LastNode, "type", "") = type

\* the node the next handler call is for
AtNode(tag) == pc = "walk" /\ ~AtRoot /\ Node.node = tag

-----------------------------------------------------------------------------
(* C1: a Lemma reference id is rendered at most once per walk.             *)

\* C1: in one walk, of the Lemma nodes carrying one reference id only the
\* first in document order can add runs; every later one leaves the
\* document as it was.
C1_FirstOccurrenceOnly ==
    \A i, j \in DOMAIN lvisits :
        (i < j /\ lvisits[i].ref # "" /\ lvisits[i].ref = lvisits[j].ref)
            => (lvisits[j].nops = 0 /\ ~lvisits[j].changed)

C1_Witness ==
    /\ Len(lvisits) = 2
    /\ lvisits[1].ref = lvisits[2].ref
    /\ lvisits[1].nops > 0
    /\ Did("l") /\ lastOps.nops = 0
    /\ Len(l_reflist) = 1

-----------------------------------------------------------------------------
(* C2: the document is append-only and tail-mutable.                       *)

\* C2: every step of the walk keeps the paragraphs that are not last as
\* they are, only appends runs to the last paragraph, never removes a
\* paragraph, and every run a handler adds goes to the paragraph that is
\* last when the run is added.
C2_AppendOnlyTailMutable ==
    [][pc = "walk" =>
          /\ Len(doc') >= Len(doc)
          /\ \A i \in 1..(Len(doc) - 1) : doc'[i] = doc[i]
          /\ doc # <<>> => IsPrefix(doc[Len(doc)], doc'[Len(doc)])
          /\ lastOps'.tail]_vars

C2_Witness ==
    /\ DidD("obverse")
    /\ lastOps.n >= 2
    /\ lastOps.nruns = 1
    /\ Len(doc) = lastOps.n + 3
    /\ doc[2] # <<>>

-----------------------------------------------------------------------------
(* C3: the section-header state.                                           *)

\* C3: a walk starts with no header inserted; once the header state is set
\* it stays set; a step adds a "Text" paragraph only if it is the visit of
\* a discourse chunk made while the state is not set, and that step sets
\* it; the document never holds more than one "Text" paragraph.
C3_HeaderStateMonotone ==
    [][/\ pc = "parse" => ~found_obverse_or_reverse_d_node
       /\ pc = "walk" =>
            /\ found_obverse_or_reverse_d_node => found_obverse_or_reverse_d_node'
            /\ Cardinality(TextParagraphs(doc')) <= 1
            /\ TextParagraphs(doc') # TextParagraphs(doc) =>
                 /\ ~found_obverse_or_reverse_d_node
                 /\ found_obverse_or_reverse_d_node'
                 /\ (AtRoot \/ Node.node = "c") /\ Node.type = "discourse"
                 /\ \A i \in 1..Len(doc) :
                        ParagraphText(doc[i]) \notin {ObverseHeader, ReverseHeader}]_vars

C3_Witness ==
    /\ Did("c") /\ LastNode.type = "discourse"
    /\ lastOps.nops = 0
    /\ lastOps.n >= 2
    /\ found_obverse_or_reverse_d_node
    /\ TextParagraphs(doc) = {}

-----------------------------------------------------------------------------
(* C4: the header of a tree with a discourse chunk and no obverse/reverse. *)

\* C4, as the spec states it: the rendered document of a tree with one
\* discourse chunk and no obverse/reverse begins with the paragraphs
\* "Text" and "".
C4_TextThenBlank ==
    (pc = "save" /\ Cardinality(DiscourseAt) = 1 /\ ObvRevAt = {})
        => /\ Len(doc) >= 2
           /\ ParagraphText(doc[1]) = TextHeader
           /\ ParagraphText(doc[2]) = <<>>

\* C4: in the walk of a tree with no obverse/reverse, a document that holds
\* anything holds at least two paragraphs, the first being exactly the run
\* "Text"; it is exactly "Text" followed by an empty paragraph when the
\* discourse chunk has just inserted the header; and the rendered document
\* of such a tree with a discourse chunk is not empty.
C4_TextFirst ==
    (InWalk /\ ObvRevAt = {})
        => /\ doc # <<>> => (Len(doc) >= 2 /\ doc[1] = <<Plain(TextHeader)>>)
           /\ (Did("c") /\ lastOps.nops > 0) => doc = << <<Plain(TextHeader)>>, <<>> >>
           /\ (pc = "save" /\ DiscourseAt # {}) => doc # <<>>

C4_Witness ==
    /\ pc = "save"
    /\ Cardinality(DiscourseAt) = 1 /\ ObvRevAt = {}
    /\ Len(doc) = 2
    /\ ParagraphText(doc[1]) = TextHeader
    /\ ParagraphText(doc[2]) # <<>>

-----------------------------------------------------------------------------
(* C5: the header of a tree whose first Discontinuity is obverse.          *)

\* C5, as the spec states it: the rendered document of a tree whose first
\* Discontinuity is obverse begins with "Obverse" and "" and holds no
\* "Text" paragraph.
C5_ObverseHeaderOnly ==
    (pc = "save" /\ FirstDIsObverse)
        => /\ Len(doc) >= 2
           /\ ParagraphText(doc[1]) = ObverseHeader
           /\ ParagraphText(doc[2]) = <<>>
           /\ TextParagraphs(doc) = {}

\* C5: in the walk of a tree whose first Discontinuity is obverse: if no
\* discourse chunk comes before it, a document that holds anything begins
\* with exactly the run "Obverse", holds a second paragraph and holds no
\* "Text" paragraph; if a discourse chunk comes before it, the document
\* begins with "Text".  An obverse that has just been processed on an empty
\* document leaves exactly "Obverse", ""; on a document of n paragraphs it
\* leaves them followed by "", "Obverse", "".
C5_ObverseHeader ==
    (InWalk /\ FirstDIsObverse)
        => /\ (~DiscourseBeforeFirstD /\ doc # <<>>)
                => /\ Len(doc) >= 2
                   /\ doc[1] = <<Plain(ObverseHeader)>>
                   /\ TextParagraphs(doc) = {}
           /\ (DiscourseBeforeFirstD /\ doc # <<>>) => doc[1] = <<Plain(TextHeader)>>
           /\ DidD("obverse")
                => IF lastOps.n = 0
                   THEN doc = << <<Plain(ObverseHeader)>>, <<>> >>
                   ELSE /\ Len(doc) = lastOps.n + 3
                        /\ SubSeq(doc, lastOps.n + 1, lastOps.n + 3)
                             = << <<>>, <<Plain(ObverseHeader)>>, <<>> >>

C5_Witness ==
    /\ pc = "save"
    /\ FirstDIsObverse /\ ~DiscourseBeforeFirstD /\ DiscourseAt # {}
    /\ Len(doc) = 2
    /\ doc[1] = <<Plain(ObverseHeader)>>
    /\ doc[2] # <<>>

-----------------------------------------------------------------------------
(* C6: line-start suppression.                                             *)

\* C6, as the spec states it: a line-start adds nothing when the last
\* paragraph is empty or is a header paragraph, and adds one empty
\* paragraph for every other content of the last paragraph.
C6_LineStartExact ==
    [][(AtNode("d") /\ Node.type = "line-start" /\ doc # <<>>)
          => IF ParagraphText(Last(doc)) \in {<<>>, TextHeader, ObverseHeader, ReverseHeader}
             THEN doc' = doc
             ELSE doc' = Append(doc, <<>>)]_vars

WhitespaceOnly(text) == \A i \in DOMAIN text : text[i] \in Whitespace

HoldsHeaderWord(text) ==
    \E word \in {TextHeader, ObverseHeader, ReverseHeader, ColumnWord} :
        \E i \in 0..(Len(text) - Len(word)) : SubSeq(text, i + 1, i + Len(word)) = word

\* C6: a line-start adds nothing when the document has no paragraph, when
\* the text of the last paragraph is empty or whitespace only, or when that
\* text holds "Text", "Obverse", "Reverse" or "column" anywhere in it; in
\* every other case it adds exactly one empty paragraph.
C6_LineStartSuppression ==
    [][(AtNode("d") /\ Node.type = "line-start")
          => IF \/ doc = <<>>
                \/ WhitespaceOnly(ParagraphText(Last(doc)))
                \/ HoldsHeaderWord(ParagraphText(Last(doc)))
             THEN doc' = doc
             ELSE doc' = Append(doc, <<>>)]_vars

C6_Witness ==
    /\ DidD("line-start")
    /\ lastOps.nops = 0
    /\ lastOps.n = Len(doc) /\ doc # <<>>
    /\ ParagraphText(Last(doc)) # <<>>
    /\ ~HoldsHeaderWord(ParagraphText(Last(doc)))

-----------------------------------------------------------------------------
(* C7: nodes missing a required field.                                     *)

GdlOf(n) == IF Has(n, "f") THEN Get(n.f, "gdl", <<>>) ELSE <<>>

MissingField(n) ==
    \/ n.node = "c" /\ (Get(n, "id", "") = "" \/ ~Has(n, "cdl"))
    \/ n.node = "l" /\ ~Has(n, "ref")
    \/ n.node = "l" /\ \E i \in DOMAIN GdlOf(n) :
                          Has(GdlOf(n)[i], "det") /\ ~Has(GdlOf(n)[i], "seq")

\* C7, as the spec states it: the handler of a chunk without id or child
\* list, of a Lemma without reference id, or of a Lemma holding a
\* determinative without inner sequence raises nothing, and the walk goes
\* on with the next node.
C7_MalformedSkipped ==
    [][(pc = "walk" /\ ~AtRoot /\ doc # <<>> /\ MissingField(Node))
          => (lastOps'.err = "" /\ pc' # "crashed")]_vars

\* the one malformed node that is skipped: the chunk without id
C7_Witness ==
    /\ Did("c") /\ Get(LastNode, "id", "") = ""
    /\ lastOps.err = "" /\ lastOps.nops = 0
    /\ pc \in {"walk", "save"}

-----------------------------------------------------------------------------
(* C8: elements of no known kind.                                          *)

KnownDTypes ==
    {"line-start", "obverse", "reverse", "punct", "excised", "object", "surface",
     "tablet", "nonx", "nonw"}

UnknownSubElement(e) ==
    DOMAIN e \cap {"s", "v", "det", "gg", "x", "n", "q", "c", "mods"} = {}

UnknownDet(e) ==
    /\ Has(e, "det")
    /\ \/ e.det \notin {"semantic", "phonetic"}
       \/ /\ Get(e, "seq", <<>>) # <<>>
          /\ DOMAIN e.seq[1] \cap {"s", "v", "mods", "n"} = {}

UnknownVariant(n) ==
    \/ n.node \notin {"c", "d", "l"}
    \/ n.node = "d" /\ Get(n, "type", "") \notin KnownDTypes
    \/ n.node = "l" /\ Has(n, "ref")
         /\ \E i \in DOMAIN GdlOf(n) :
               UnknownSubElement(GdlOf(n)[i]) \/ UnknownDet(GdlOf(n)[i])

\* C8, as the spec states it: the handler of a node of unknown tag, of a
\* Discontinuity of unknown type, or of a Lemma holding a sub-element of
\* unknown kind, a determinative of unknown category or a determinative of
\* unknown inner form raises nothing, the walk goes on with the next node,
\* and an unknown node or Discontinuity leaves the document as it was.
C8_UnknownSkipped ==
    [][(pc = "walk" /\ ~AtRoot /\ doc # <<>> /\ UnknownVariant(Node))
          => /\ lastOps'.err = "" /\ pc' # "crashed"
             /\ Node.node # "l" => doc' = doc]_vars

\* an unknown Discontinuity type, which is skipped
C8_Witness ==
    /\ DidD("zz")
    /\ lastOps.err = "" /\ lastOps.nops = 0 /\ lastOps.n > 0
    /\ pc \in {"walk", "save"}

-----------------------------------------------------------------------------
(* C9: a root that is not a cdl tree.                                      *)

NotCdl == Has(cdl_dict, "type") /\ cdl_dict.type # "cdl"

\* C9: parse_json on a record whose type is not "cdl" starts no walk and
\* leaves the document without paragraphs; no node handler runs before the
\* document is handed to save_docx, nothing is saved, and control is back
\* in main's loop over the records.
C9_NotCdlRendersNothing ==
    [][NotCdl =>
          /\ pc = "parse" => /\ pc' = "save" /\ stack' = <<>>
                             /\ doc' = <<>> /\ lvisits' = <<>>
                             /\ lastOps'.kind = "not-cdl"
          /\ pc = "save" => /\ doc = <<>> /\ lvisits = <<>>
                            /\ lastOps.kind = "not-cdl"
                            /\ pc' = "main" /\ ~saved']_vars

C9_Witness ==
    /\ pc = "save" /\ NotCdl
    /\ Has(cdl_dict, "cdl") /\ cdl_dict.cdl # <<>>
    /\ doc = <<>>

-----------------------------------------------------------------------------
(* C10: failures of the remote fetch.                                      *)

NoSubElements(n) ==
    /\ n.node = "l" /\ Has(n, "ref") /\ Has(n, "frag") /\ Has(n, "f")
    /\ Get(n.f, "lang", "") \notin {"arc", "qcu-949"}
    /\ GdlOf(n) = <<>>

\* C10, as the spec states it: whatever the remote fetch does, the handler
\* of a Lemma without sub-elements raises nothing and the walk goes on with
\* the next node.
C10_FetchFailureSkipped ==
    [][(pc = "walk" /\ ~AtRoot /\ doc # <<>> /\ NoSubElements(Node))
          => (lastOps'.err = "" /\ pc' # "crashed")]_vars

\* the id is not on the page fetched: the Lemma adds nothing
C10_Witness ==
    /\ Did("l") /\ NoSubElements(LastNode)
    /\ soup.loaded /\ "r3" \notin DOMAIN soup.page
    /\ lastOps.err = "" /\ lastOps.nops = 0 /\ lastOps.n > 0

-----------------------------------------------------------------------------
(* Records holding one Lemma with a list of sub-elements.                  *)

\* sub-elements of a Lemma
MaxGdl == 2

\* Sub-elements by name: sign forms and logograms in either case and with
\* decoration flags, determinatives before and after the word around each
\* kind of inner form, clusters, numerals, and sign forms carrying an
\* opener/closer literal with statusStart.
ElemOf ==
    [vLower |->
        [v |-> <<"a">>],
     vUpper |->
        [v |-> <<"A">>, delim |-> <<"-">>, breakStart |-> "1", queried |-> "1"],
     sLower |->
        [s |-> <<"l", "u">>, role |-> "logo", breakEnd |-> "1"],
     sUpper |->
        [s |-> <<"L", "U">>, role |-> "logo", delim |-> <<".">>],
     detPreS |->
        [det |-> "semantic", pos |-> "pre", seq |-> << [s |-> <<"d">>] >>],
     detPostV |->
        [det |-> "semantic", pos |-> "post",
         seq |-> << [v |-> <<"k", "i">>, delim |-> <<"-">>, queried |-> "1"] >>],
     detPreUpper |->
        [det |-> "phonetic", pos |-> "pre",
         seq |-> << [s |-> <<"D">>, breakStart |-> "1", breakEnd |-> "1"] >>],
     detMods |->
        [det |-> "semantic", pos |-> "pre",
         seq |-> << [mods |-> "v", form |-> <<"G", "I", "~", "v">>] >>],
     detNum |->
        [det |-> "semantic", pos |-> "pre",
         seq |-> << [n |-> "n", form |-> <<"1">>] >>],
     cluster |->
        [gg |-> "logo", delim |-> Sp,
         group |-> << [s |-> <<"L", "U">>, role |-> "logo", delim |-> <<".">>],
                      [det |-> "semantic", pos |-> "pre", seq |-> << [s |-> <<"d">>] >>],
                      [det |-> "semantic", pos |-> "post", seq |-> << [v |-> <<"k", "i">>] >>],
                      [v |-> <<"a">>] >>],
     nested |->
        [gg |-> "logo",
         group |-> << [gg |-> "logo", delim |-> <<"-">>,
                       group |-> << [det |-> "semantic", pos |-> "pre", seq |-> << [s |-> <<"d">>] >>],
                                    [det |-> "semantic", pos |-> "post", seq |-> << [v |-> <<"k", "i">>] >>] >>],
                      [det |-> "phonetic", pos |-> "pre", seq |-> << [s |-> <<"D">>] >>],
                      [det |-> "semantic", pos |-> "post", seq |-> << [v |-> <<"k", "i">>] >>] >>],
     half |->
        [n |-> "n", form |-> <<"1", "/", "2">>],
     third |->
        [n |-> "n", form |-> <<"1", "/", "3">>, delim |-> Sp],
     twoThirds |->
        [n |-> "n", form |-> <<"2", "/", "3">>],
     four |->
        [n |-> "n", form |-> <<"4">>, queried |-> "1"],
     opensAngles |->
        [v |-> <<"e">>, id |-> "e1", statusStart |-> "e1", o |-> <<"<", "<">>],
     closesAngles |->
        [v |-> <<"E">>, id |-> "e2", statusStart |-> "e1", o |-> <<"<", "<">>],
     ownCloser |->
        [v |-> <<"e">>, id |-> "e3", statusStart |-> "e3", o |-> <<">", ">">>],
     ownParen |->
        [s |-> <<"E">>, id |-> "e4", statusStart |-> "e4", o |-> <<")">>],
     statusOne |->
        [v |-> <<"e">>, id |-> "e5", statusStart |-> "int:1", o |-> <<"<", "<">>]]

\* every list of 1..MaxGdl sub-elements
GdlRecords ==
    {Loaded(LemmaTree(Lemma("r1", [i \in DOMAIN names |-> ElemOf[names[i]]]))) :
        names \in UNION {[1..n -> DOMAIN ElemOf] : n \in 1..MaxGdl}}

GdlNext == Next(GdlRecords)

\* the walk over Lemmas holding a list of sub-elements
SpecGdl == Init /\ [][GdlNext]_vars

-----------------------------------------------------------------------------
(* Records holding one Lemma with a decorated sub-element or a fragment.   *)

\* the dict of a sub-element: its own keys, the flags set to "1", the keys
\* of the opener/closer literal and the delimiter
Decorated(base, flags, literal, delim) ==
    [k \in DOMAIN base \cup flags \cup DOMAIN literal \cup DOMAIN delim |->
        IF k \in DOMAIN base THEN base[k]
        ELSE IF k \in flags THEN "1"
        ELSE IF k \in DOMAIN literal THEN literal[k]
        ELSE delim[k]]

\* A sign form, a logogram, an ellipsis and a numeral under every
\* combination of the flags, without literal or with a closing literal tied
\* to the element's own id, without delimiter or with "-" or "/"; then
\* elements whose statusStart is "1" or the number 1, elements whose literal
\* is absent, an opening form or unknown to the mirror table, qualified
\* fragments with determinative spans, and composites with and without
\* delimiter, alone, followed by a sign form, and inside a cluster.
DecoRecords ==
    {Loaded(LemmaTree(Lemma("r1", <<node_dict>>))) :
        node_dict \in
            {Decorated(base, flags, literal, delim) :
                base \in {[v |-> <<"a">>], [s |-> <<"L", "U">>], [x |-> "ellipsis"],
                          [n |-> "n", form |-> <<"4">>]},
                flags \in SUBSET {"breakStart", "ho", "queried", "hc", "breakEnd"},
                literal \in {<<>>,
                             [id |-> "e1", statusStart |-> "e1", o |-> <<")">>],
                             [id |-> "e1", statusStart |-> "e1", o |-> <<">", ">">>]},
                delim \in {<<>>, [delim |-> <<"-">>], [delim |-> <<"/">>]}}}
    \cup
    {Loaded(LemmaTree(Lemma("r1", gdl))) :
        gdl \in
            UNION {{<<node_dict>>, <<node_dict, [v |-> <<"a">>]>>,
                    << [gg |-> "logo", group |-> <<node_dict, [v |-> <<"a">>]>>] >>} :
                node_dict \in
                    {[v |-> <<"e">>, id |-> "e1", statusStart |-> "1", o |-> <<"<", "<">>],
                     [v |-> <<"e">>, id |-> "e1", statusStart |-> "int:1", o |-> <<"<", "<">>],
                     [v |-> <<"e">>, id |-> "e1", statusStart |-> "e1"],
                     [v |-> <<"e">>, id |-> "e1", statusStart |-> "e1", o |-> <<"<", "<">>],
                     [v |-> <<"e">>, id |-> "e1", statusStart |-> "e1", o |-> <<"<">>],
                     [v |-> <<"e">>, id |-> "e1", statusStart |-> "e1", o |-> <<"(">>],
                     [v |-> <<"e">>, id |-> "e1", statusStart |-> "e1", o |-> <<"x">>],
                     [q |-> <<"{", "k", "m", "1", "}", "a", "B", "2", "|", "-">>, delim |-> <<"-">>],
                     [q |-> <<"d", "}", "u", "{", "K", "i", "}", "[">>, delim |-> Sp],
                     [c |-> <<"|", "A", ".", "B", "|">>, delim |-> <<"-">>],
                     [c |-> <<"|", "A", ".", "B", "|">>]}}}

DecoNext == Next(DecoRecords)

\* the walk over Lemmas holding a decorated sub-element or a fragment
SpecDeco == Init /\ [][DecoNext]_vars

-----------------------------------------------------------------------------
(* C11: italics of sign-form, logogram and determinative readings.         *)

\* a Lemma's sub-element list has been rendered without error
DidGdl == Did("l") /\ lastOps.err = "" /\ GdlOf(LastNode) # <<>>

\* the reading of a determinative's inner form
InnerReading(det_node) ==
    IF Has(det_node, "s") THEN [kind |-> "det", inner |-> "s", text |-> det_node.s]
    ELSE IF Has(det_node, "v") THEN [kind |-> "det", inner |-> "v", text |-> det_node.v]
    ELSE [kind |-> "det", inner |-> IF Has(det_node, "mods") THEN "mods" ELSE "n",
          text |-> IF Has(det_node, "n") /\ det_node.form = <<"1">>
                   THEN <<"m">> ELSE det_node.form]

\* the readings of a sub-element list in document order, clusters flattened
RECURSIVE Readings(_)
Readings(gdl) ==
    IF gdl = <<>> THEN <<>>
    ELSE (IF Has(Head(gdl), "s")
          THEN <<[kind |-> "logogram", inner |-> "", text |-> Head(gdl).s]>>
          ELSE IF Has(Head(gdl), "v")
          THEN <<[kind |-> "sign", inner |-> "", text |-> Head(gdl).v]>>
          ELSE IF Has(Head(gdl), "det") THEN <<InnerReading(Head(gdl).seq[1])>>
          ELSE IF Has(Head(gdl), "gg") THEN Readings(Head(gdl).group)
          ELSE <<>>)
         \o Readings(Tail(gdl))

\* no decoration, delimiter or numeral of ElemOf has the text of a reading
ReadingTexts ==
    UNION {{Readings(<<ElemOf[k]>>)[i].text : i \in DOMAIN Readings(<<ElemOf[k]>>)} :
           k \in DOMAIN ElemOf}

IsReadingRun(r) == r.text \in ReadingTexts

\* the runs of a paragraph that hold a reading
ReadingRuns(p) == SelectSeq(p, IsReadingRun)

Italics(rs) == [i \in DOMAIN rs |-> [text |-> rs[i].text, italic |-> rs[i].italic]]

\* C11, as the spec states it: the italic flag of every rendered SignForm
\* and Logogram reading, be it a top-level sub-element, a cluster member
\* or the inner form of a Determinative, is "the reading is lower-case".
C11_ItalicIffLower ==
    DidGdl =>
        \A i \in DOMAIN Readings(GdlOf(LastNode)) :
            Readings(GdlOf(LastNode))[i].inner \in {"", "s", "v"}
                => /\ i \in DOMAIN ReadingRuns(Last(doc))
                   /\ ReadingRuns(Last(doc))[i].italic
                          = IsLower(Readings(GdlOf(LastNode))[i].text)

ItalicsByKind(rd) ==
    [i \in DOMAIN rd |->
        [text |-> rd[i].text, italic |-> rd[i].kind = "sign" /\ IsLower(rd[i].text)]]

\* C11, amended: the readings are rendered in document order, one run each;
\* a SignForm's run, at top level or in a cluster, is italic exactly when
\* the reading is lower-case; the run of a Logogram and the run of a
\* Determinative's inner form are never italic.
C11_ItalicByKind ==
    DidGdl => Italics(ReadingRuns(Last(doc))) = ItalicsByKind(Readings(GdlOf(LastNode)))

\* a cluster holding a lower-case sign form and a lower-case determinative,
\* next to a lower-case logogram
C11_Witness ==
    /\ DidGdl
    /\ \E i \in DOMAIN GdlOf(LastNode) : Has(GdlOf(LastNode)[i], "gg")
    /\ \E i, j, k \in DOMAIN Last(doc) :
          /\ Last(doc)[i].text = <<"a">> /\ Last(doc)[i].italic
          /\ Last(doc)[j].text = <<"l", "u">> /\ ~Last(doc)[j].italic
          /\ Last(doc)[k].text = <<"k", "i">> /\ ~Last(doc)[k].italic

-----------------------------------------------------------------------------
(* C12: the inner form of a determinative is superscript.                  *)

\* C12: when a Lemma's sub-elements are rendered, every Determinative with
\* position pre or post, at top level or inside a cluster, yields a run
\* holding its inner form with superscript set, whatever the kind (s, v,
\* mods, n), the case and the decoration flags of the inner form.
C12_DetSuperscript ==
    DidGdl =>
        /\ Len(ReadingRuns(Last(doc))) = Len(Readings(GdlOf(LastNode)))
        /\ \A i \in DOMAIN Readings(GdlOf(LastNode)) :
              Readings(GdlOf(LastNode))[i].kind = "det"
                  => /\ ReadingRuns(Last(doc))[i].text = Readings(GdlOf(LastNode))[i].text
                     /\ ReadingRuns(Last(doc))[i].superscript

\* a cluster holding lower-case determinatives, followed by a determinative
\* whose upper-case inner form carries break flags
C12_Witness ==
    /\ DidGdl
    /\ Len(GdlOf(LastNode)) = 2
    /\ Has(GdlOf(LastNode)[1], "gg")
    /\ Has(GdlOf(LastNode)[2], "det")
    /\ Truthy(GdlOf(LastNode)[2].seq[1], "breakStart")
    /\ \E i, j \in DOMAIN Last(doc) :
          /\ Last(doc)[i].text = <<"k", "i">> /\ Last(doc)[i].superscript
          /\ Last(doc)[j].text = <<"D">> /\ Last(doc)[j].superscript

-----------------------------------------------------------------------------
(* C13: the dot between adjacent determinatives.                           *)

DotRun == Rn(<<".">>, FALSE, TRUE, FALSE)

\* what each sub-element emits by itself, with a superscript dot after every
\* Determinative that is followed by a Determinative
RECURSIVE Dotted(_)
Dotted(gdl) ==
    IF gdl = <<>> THEN <<>>
    ELSE GdlNode(Head(gdl), FALSE).runs
         \o (IF Has(Head(gdl), "det") /\ Len(gdl) >= 2 /\ Has(gdl[2], "det")
             THEN <<DotRun>> ELSE <<>>)
         \o Dotted(Tail(gdl))

\* C13: the runs of a Lemma are the output of its sub-elements in order,
\* with a superscript "." run right after all output of a Determinative
\* (pre or post) whose next sub-element is a Determinative and before any
\* output of that one, and no such run after a Determinative that is last or
\* followed by another kind of sub-element; the Lemma's delimiter comes last.
C13_DotBetweenDets ==
    DidGdl =>
        Last(doc) = Dotted(GdlOf(LastNode)) \o <<Plain(Get(LastNode.f, "delim", <<>>))>>

\* two determinatives in a row, the first with a queried mark and a
\* delimiter after its inner form: the dot follows the delimiter
C13_Witness ==
    /\ DidGdl
    /\ Len(GdlOf(LastNode)) = 2
    /\ Has(GdlOf(LastNode)[1], "det") /\ Has(GdlOf(LastNode)[2], "det")
    /\ Has(GdlOf(LastNode)[1].seq[1], "delim")
    /\ Len(Last(doc)) = 6
    /\ Last(doc)[3] = Plain(<<"-">>)
    /\ Last(doc)[4] = DotRun
    /\ Last(doc)[5].superscript /\ Last(doc)[5].text # <<".">>

-----------------------------------------------------------------------------
(* C16: the opener/closer literal.                                         *)

\* the Lemma just handled holds one sign form carrying the literal <<
DidAngles ==
    /\ Did("l") /\ Len(GdlOf(LastNode)) = 1
    /\ Has(GdlOf(LastNode)[1], "v") /\ Has(GdlOf(LastNode)[1], "id")
    /\ Get(GdlOf(LastNode)[1], "o", <<>>) = <<"<", "<">>

\* C16, as the spec states it: an element whose statusStart is its own id
\* and whose literal is << gets the mirrored opening form of the normalized
\* literal before its reading; the closing element (statusStart another id)
\* with the same raw literal gets the normalized literal after its reading.
C16_MirrorSymmetry ==
    DidAngles =>
        /\ lastOps.err = ""
        /\ GdlOf(LastNode)[1].statusStart = GdlOf(LastNode)[1].id
              => /\ Len(Last(doc)) >= 2
                 /\ Last(doc)[1].text # GdlOf(LastNode)[1].v
                 /\ Last(doc)[2].text = GdlOf(LastNode)[1].v
        /\ GdlOf(LastNode)[1].statusStart \notin {GdlOf(LastNode)[1].id, "int:1"}
              => /\ Len(Last(doc)) >= 2
                 /\ Last(doc)[1].text = GdlOf(LastNode)[1].v
                 /\ Last(doc)[2].text = NormalizeAngles(<<"<", "<">>)

-----------------------------------------------------------------------------
(* C17: numerals.                                                          *)

\* the Lemma just rendered holds one Numeral
DidNumeral ==
    /\ DidGdl /\ Len(GdlOf(LastNode)) = 1
    /\ Has(GdlOf(LastNode)[1], "n")

\* VULGAR FRACTION ONE HALF, ONE THIRD, TWO THIRDS
UnicodeFraction(form) ==
    IF form = <<"1", "/", "2">> THEN <<"U+00BD">>
    ELSE IF form = <<"1", "/", "3">> THEN <<"U+2153">>
    ELSE IF form = <<"2", "/", "3">> THEN <<"U+2154">>
    ELSE form

\* C17, as the spec states it: a Numeral is rendered as one run for its
\* form, holding the Unicode fraction glyph for "1/2", "1/3" and "2/3" and
\* the form itself for every other literal.
C17_FractionGlyphs ==
    DidNumeral =>
        /\ Last(doc)[1].text = UnicodeFraction(GdlOf(LastNode)[1].form)
        /\ \A i \in 2..Len(Last(doc)) : Last(doc)[i].text # GdlOf(LastNode)[1].form

-----------------------------------------------------------------------------
(* C14, C15: the subscript conversion of a sign.                           *)

\* the Lemma just handled holds one SignForm
DidSign ==
    /\ Did("l") /\ Len(GdlOf(LastNode)) = 1
    /\ DOMAIN GdlOf(LastNode)[1] = {"v"}

SignOf(n) == GdlOf(n)[1].v

HasVowel(sign) == \E i \in 1..Len(sign) : sign[i] \in {"i", "U"}

\* the last character is the subscript 2 or 3 and no digit stands before it
BareSubscript(sign) ==
    /\ sign # <<>> /\ Last(sign) \in {"U+2082", "U+2083"}
    /\ ~(Len(sign) >= 2 /\ sign[Len(sign) - 1] \in {"U+2081", "U+2082", "U+2083"})

\* i with acute, i with grave; U with acute, U with grave
AccentedVowel(vowel, subscript) ==
    IF vowel = "i" THEN (IF subscript = "U+2082" THEN "U+00ED" ELSE "U+00EC")
    ELSE (IF subscript = "U+2082" THEN "U+00DA" ELSE "U+00D9")

FirstVowel(sign) ==
    CHOOSE k \in 1..Len(sign) :
        /\ sign[k] \in {"i", "U"}
        /\ \A j \in 1..(k - 1) : sign[j] \notin {"i", "U"}

\* the reading the spec gives for a sign
AccentedReading(sign) ==
    IF BareSubscript(sign) /\ HasVowel(sign)
    THEN [k \in 1..(Len(sign) - 1) |->
             IF k = FirstVowel(sign) THEN AccentedVowel(sign[k], Last(sign)) ELSE sign[k]]
    ELSE sign

\* C14, as the spec states it: a sign ending in a bare subscript 2 or 3 is
\* rendered with its first vowel accented (acute for 2, grave for 3) and the
\* subscript dropped; a sign with two trailing digits or without subscript
\* 2 or 3 is rendered unchanged.
C14_ConvertAccents ==
    (DidSign /\ lastOps.err = "")
        => Last(doc)[1].text = AccentedReading(SignOf(LastNode))

\* C15, as the spec states it: the conversion of any sign, the empty one
\* included, raises no error and yields a reading; a sign without a vowel
\* is rendered unchanged.
C15_ConvertTotal ==
    DidSign =>
        /\ lastOps.err = ""
        /\ Last(doc) # <<>>
        /\ ~HasVowel(SignOf(LastNode)) => Last(doc)[1].text = SignOf(LastNode)

-----------------------------------------------------------------------------
(* C18: interleaved walks.                                                 *)

\* What one walk of a tree yields when nothing else runs: the recursion of
\* parse_json and traverse_c_node over the nodes, from an empty Document, an
\* empty dedup list and header-inserted false.
AloneStart == [doc |-> <<>>, l_reflist |-> <<>>, found |-> FALSE, err |-> ""]

AloneAfter(st, res, reflist, found) ==
    [doc |-> Apply(st.doc, res.ops), l_reflist |-> reflist, found |-> found,
     err |-> res.err]

RECURSIVE AloneSeq(_, _, _)
RECURSIVE AloneC(_, _, _)

AloneNode(n, st, root) ==
    IF root \/ n.node = "c"
    THEN AloneC(n, TraverseCNode(n, st.doc, st.found), st)
    ELSE IF n.node = "d"
    THEN AloneAfter(st, ParseDNode(n, st.doc), st.l_reflist,
                    st.found \/ ParseDNode(n, st.doc).found)
    ELSE IF n.node = "l"
    THEN AloneAfter(st, ParseLNode(n, st.doc, st.l_reflist, NoSoup, [raises |-> "Timeout"]),
                    ParseLNode(n, st.doc, st.l_reflist, NoSoup, [raises |-> "Timeout"]).l_reflist,
                    st.found)
    ELSE st

AloneC(n, res, st) ==
    IF res.err = "" /\ res.enter
    THEN AloneSeq(n.cdl, AloneAfter(st, res, st.l_reflist, res.found), FALSE)
    ELSE AloneAfter(st, res, st.l_reflist, res.found)

AloneSeq(cdl, st, root) ==
    IF cdl = <<>> \/ st.err # "" THEN st
    ELSE AloneSeq(Tail(cdl), AloneNode(Resolve(Head(cdl)), st, root), root)

Alone(json_dict) == AloneSeq(json_dict.cdl, AloneStart, TRUE)

\* a walk has ended, by reaching the save or by an exception
Ended(pos) == pos \in {"save", "crashed"}

SameAsAlone(alone, d, reflist, found) ==
    /\ d = alone.doc
    /\ reflist = alone.l_reflist
    /\ found = alone.found

\* C18: when the walks of two JsonParsers interleave in any order, each
\* walk that has ended holds the document, the dedup list and the header
\* state that its tree yields when walked alone, also when both trees hold
\* Lemmas with the same reference id.
C18_WalksIsolated ==
    /\ Ended(pc)
          => SameAsAlone(Alone(cdl_dict), doc, l_reflist,
                         found_obverse_or_reverse_d_node)
    /\ Ended(parked.pc)
          => SameAsAlone(Alone(parked.cdl_dict), parked.doc, parked.l_reflist,
                         parked.found_obverse_or_reverse_d_node)

\* both walks are under way on different trees, each has rendered a Lemma
\* of reference id r1 and has nodes left
C18_Witness ==
    /\ pc = "walk" /\ parked.pc = "walk"
    /\ cdl_dict # parked.cdl_dict
    /\ l_reflist = <<"r1">> /\ parked.l_reflist = <<"r1">>
    /\ Did("l") /\ lastOps.nruns > 0
    /\ parked.lastOps.kind = "node" /\ parked.lastOps.nruns > 0
    /\ doc # parked.doc

-----------------------------------------------------------------------------
(* C19: English-gloss Lemmas.                                              *)

\* the handler has just returned from an English-gloss Lemma whose
\* reference id was new, with a paragraph to append to
DidEnglish ==
    /\ Did("l") /\ Has(LastNode, "ref") /\ Has(LastNode, "f")
    /\ Get(LastNode.f, "lang", "") = "qcu-949"
    /\ lastOps.n > 0
    /\ Cardinality({i \in DOMAIN lvisits : lvisits[i].ref = LastNode.ref}) = 1

\* C19, as the spec states it: an English-gloss Lemma appends one run
\* holding its fragment verbatim to the current paragraph, then a space.
C19_GlossVerbatim ==
    DidEnglish =>
        /\ lastOps.nruns >= 1
        /\ \E i \in DOMAIN Last(doc) : Last(doc)[i].text = LastNode.frag

\* C19, amended: an English-gloss Lemma raises nothing and appends no run
\* and no paragraph; only its reference id is recorded.
C19_GlossOmitted ==
    DidEnglish =>
        /\ lastOps.err = "" /\ lastOps.nops = 0
        /\ \E i \in DOMAIN l_reflist : l_reflist[i] = LastNode.ref
        /\ pc # "crashed"

\* the gloss is the only Lemma of its chunk: the paragraph under the header
\* stays empty
C19_Witness ==
    /\ DidEnglish
    /\ lastOps.err = "" /\ lastOps.nops = 0
    /\ Len(doc) = 2 /\ ParagraphText(doc[1]) = TextHeader /\ doc[2] = <<>>
    /\ l_reflist = <<LastNode.ref>>

-----------------------------------------------------------------------------
(* C20: the blank paragraph before "Obverse".                              *)

\* C20: an obverse Discontinuity processed on a document of 0 or 1
\* paragraphs appends "Obverse", ""; on a document of 2 or more paragraphs
\* it appends "", "Obverse", ""; header-inserted is true afterwards.  (No
\* walk reaches an obverse node with exactly one paragraph: the document is
\* empty until a header is inserted, and every header comes with a blank
\* paragraph.)
C20_GapFromTwo ==
    DidD("obverse") =>
        /\ found_obverse_or_reverse_d_node
        /\ IF lastOps.n >= 2
           THEN /\ Len(doc) = lastOps.n + 3
                /\ SubSeq(doc, lastOps.n + 1, lastOps.n + 3)
                     = << <<>>, <<Plain(ObverseHeader)>>, <<>> >>
           ELSE /\ Len(doc) = lastOps.n + 2
                /\ SubSeq(doc, lastOps.n + 1, lastOps.n + 2)
                     = << <<Plain(ObverseHeader)>>, <<>> >>

\* two obverse nodes in a row: the first finds the document empty, the
\* second finds the two paragraphs the first one left
C20_Witness ==
    /\ DidD("obverse") /\ lastOps.n = 2
    /\ found_obverse_or_reverse_d_node
    /\ doc = << <<Plain(ObverseHeader)>>, <<>>,
                <<>>, <<Plain(ObverseHeader)>>, <<>> >>

-----------------------------------------------------------------------------
(* C29: determinatives inside a cluster.                                   *)

\* the pairs of adjacent Determinatives of a sub-element list
DetPairs(gdl) ==
    {i \in 1..(Len(gdl) - 1) : Has(gdl[i], "det") /\ Has(gdl[i + 1], "det")}

RECURSIVE HoldsDetPair(_)
HoldsDetPair(gdl_node) ==
    /\ Has(gdl_node, "gg")
    /\ \/ DetPairs(gdl_node.group) # {}
       \/ \E i \in DOMAIN gdl_node.group : HoldsDetPair(gdl_node.group[i])

\* C29: the superscript "." runs of a rendered Lemma are as many as the
\* pairs of adjacent Determinatives of its top-level sub-element list; the
\* adjacent Determinatives of a cluster group, at any depth, get none.
C29_NoDotInCluster ==
    DidGdl =>
        Cardinality({i \in DOMAIN Last(doc) : Last(doc)[i] = DotRun})
            = Cardinality(DetPairs(GdlOf(LastNode)))

\* a cluster holding a cluster of two determinatives and two more
\* determinatives: four superscript runs and no dot
C29_Witness ==
    /\ DidGdl /\ Len(GdlOf(LastNode)) = 1
    /\ HoldsDetPair(GdlOf(LastNode)[1])
    /\ \E i \in DOMAIN GdlOf(LastNode)[1].group : HoldsDetPair(GdlOf(LastNode)[1].group[i])
    /\ Cardinality({i \in DOMAIN Last(doc) : Last(doc)[i].superscript}) = 4
    /\ \A i \in DOMAIN Last(doc) : Last(doc)[i].text # <<".">>

-----------------------------------------------------------------------------
(* C21: the order of the decoration runs.                                  *)

\* the only sub-element of the Lemma just handled
OnlyElem == GdlOf(LastNode)[1]

\* the Lemma just handled holds one sign form, logogram, ellipsis or
\* numeral, without literal or with a closing literal tied to its own id
DidDecorated ==
    /\ Did("l") /\ Len(GdlOf(LastNode)) = 1
    /\ DOMAIN OnlyElem \cap {"v", "s", "x", "n"} # {}
    /\ \/ DOMAIN OnlyElem \cap {"id", "statusStart", "o"} = {}
       \/ /\ {"id", "statusStart", "o"} \subseteq DOMAIN OnlyElem
          /\ OnlyElem.statusStart = OnlyElem.id
          /\ OnlyElem.o \in {<<")">>, <<">", ">">>}

ReadingOf(e) ==
    IF Has(e, "v") THEN e.v
    ELSE IF Has(e, "s") THEN e.s
    ELSE IF Has(e, "x") THEN EllipsisLit
    ELSE e.form

IfSet(cond, text) == IF cond THEN <<text>> ELSE <<>>

\* the texts in the order the spec gives
DecorationOrder(e) ==
    IfSet(Has(e, "breakStart"), <<"[">>)
    \o IfSet(Has(e, "o"), IF Get(e, "o", <<>>) = <<")">> THEN <<"(">> ELSE LaquoLit)
    \o IfSet(Has(e, "ho"), HalfOpenLit)
    \o <<ReadingOf(e)>>
    \o IfSet(Has(e, "queried"), QueriedLit)
    \o IfSet(Has(e, "hc"), HalfCloseLit)
    \o IfSet(Has(e, "o"), IF Get(e, "o", <<>>) = <<")">> THEN <<")">> ELSE RaquoLit)
    \o IfSet(Has(e, "breakEnd"), <<"]">>)
    \o IfSet(Has(e, "delim"),
             IF Get(e, "delim", <<>>) = <<"/">> THEN <<" ", "/", " ">> ELSE Get(e, "delim", <<>>))

Texts(p) == [i \in DOMAIN p |-> p[i].text]

-----------------------------------------------------------------------------
(* C22: statusStart with the value 1.                                      *)

\* C22, as the spec states it: an element whose statusStart is not its id
\* but the value 1 in the representation of the flags ("1") gets its stored
\* literal as-is before the reading, and no literal after it.
C22_StatusOneOpener ==
    (/\ Did("l") /\ Len(GdlOf(LastNode)) = 1
     /\ Has(OnlyElem, "v") /\ Get(OnlyElem, "statusStart", "") = "1")
        => /\ lastOps.err = ""
           /\ Texts(Last(doc)) = <<OnlyElem.o, OnlyElem.v, Sp>>

-----------------------------------------------------------------------------
(* C23: the character-by-character styling of a fragment.                  *)

Styles(p) ==
    [i \in DOMAIN p |->
        [text |-> p[i].text, italic |-> p[i].italic, superscript |-> p[i].superscript]]

\* the run the spec gives for one character
ClassifiedChar(char, in_span) ==
    IF ~(IsAlpha(char) \/ IsDigit(char))
    THEN [text |-> <<char>>, italic |-> FALSE, superscript |-> FALSE]
    ELSE IF in_span
    THEN [text |-> <<IF IsLowerChar(char) /\ char \notin {"m", "d"}
                     THEN UpperChar(char) ELSE char>>,
          italic |-> FALSE, superscript |-> TRUE]
    ELSE [text |-> <<char>>, italic |-> IsLowerChar(char), superscript |-> FALSE]

\* the runs the spec gives for a fragment: { and } emit nothing
RECURSIVE Classified(_, _)
Classified(frag, in_span) ==
    IF frag = <<>> THEN <<>>
    ELSE IF Head(frag) = "{" THEN Classified(Tail(frag), TRUE)
    ELSE IF Head(frag) = "}" THEN Classified(Tail(frag), FALSE)
    ELSE <<ClassifiedChar(Head(frag), in_span)>> \o Classified(Tail(frag), in_span)

\* C23, as the spec states it: in a Qualified fragment { and } emit no run,
\* every letter or digit between them is superscript, lower-case letters
\* other than m and d capitalized; only lower-case letters outside a span
\* are italic; every other character is an unstyled run; the delimiter is
\* the last run of the fragment.
C23_FragmentStyling ==
    (/\ Did("l") /\ Len(GdlOf(LastNode)) = 1
     /\ Has(OnlyElem, "q") /\ Head(OnlyElem.q) = "{")
        => /\ lastOps.err = ""
           /\ Styles(Last(doc))
                = Classified(Replace(OnlyElem.q, <<"|">>, <<>>), FALSE)
                  \o << [text |-> OnlyElem.delim, italic |-> FALSE, superscript |-> FALSE],
                        [text |-> Sp, italic |-> FALSE, superscript |-> FALSE] >>

-----------------------------------------------------------------------------
(* C24: composite fragments.                                               *)

IsComposite(e) == Has(e, "c")

\* the first sub-element of the Lemma just handled is a Composite or a
\* cluster whose first member is one
DidComposite ==
    /\ Did("l") /\ GdlOf(LastNode) # <<>>
    /\ \/ IsComposite(OnlyElem)
       \/ Has(OnlyElem, "gg") /\ IsComposite(OnlyElem.group[1])

\* the text of the Composite's run: the raw text without "|", then the
\* delimiter if there is one
CompositeText(e) == Replace(e.c, <<"|">>, <<>>) \o Get(e, "delim", <<>>)

\* C24, as the spec states it: a Composite, at top level or in a cluster,
\* with or without delimiter, is rendered without error as its raw text
\* without "|" plus the delimiter, and the sub-elements after it are
\* rendered.
C24_CompositeRendered ==
    DidComposite =>
        /\ lastOps.err = ""
        /\ Last(doc) # <<>>
        /\ Last(doc)[1].text
             = CompositeText(IF IsComposite(OnlyElem) THEN OnlyElem ELSE OnlyElem.group[1])
        /\ (Len(GdlOf(LastNode)) = 2 \/ Has(OnlyElem, "gg"))
              => Len(Last(doc)) >= 2 /\ Last(doc)[2].text = <<"a">>

-----------------------------------------------------------------------------
(* C28: the mirror table.                                                  *)

\* C28, as the spec states it: for an element whose statusStart is its own
\* id the symbols before and after the reading are emitted without failure
\* whatever the literal: absent, a closing form, an opening form (<<, <, ()
\* or a text the mirror table does not hold.
C28_MirrorTotal ==
    (/\ Did("l") /\ Len(GdlOf(LastNode)) = 1
     /\ Has(OnlyElem, "id") /\ Get(OnlyElem, "statusStart", "") = OnlyElem.id)
        => /\ lastOps.err = ""
           /\ pc # "crashed"
           /\ \E i \in DOMAIN Last(doc) : Last(doc)[i].text = ReadingOf(OnlyElem)

-----------------------------------------------------------------------------
(* C27: the last paragraph.                                                *)

\* the next handler call takes the last paragraph of the document
TakesLastParagraph ==
    \/ AtNode("l")
    \/ AtNode("d") /\ Get(Node, "type", "") \in {"punct", "excised"}

\* C27, as the spec states it: when a Lemma, a punct or an excised
\* Discontinuity is about to be processed the document holds a paragraph,
\* also when the node precedes every discourse chunk and every
\* obverse/reverse; a line-start on a document without paragraphs adds
\* nothing and raises nothing.
C27_ParagraphExists ==
    /\ TakesLastParagraph => Len(doc) >= 1
    /\ (DidD("line-start") /\ lastOps.n = 0) => (lastOps.err = "" /\ doc = <<>>)
    /\ (Did("l") \/ DidD("punct") \/ DidD("excised"))
          => lastOps.err \notin {"IndexError", "AssertionError"}

-----------------------------------------------------------------------------
(* C25: the reference id is recorded before the Lemma is rendered.         *)

VisitsOf(ref) == {i \in DOMAIN lvisits : lvisits[i].ref = ref}

\* the first Lemma of this walk that carried ref
FirstVisit(ref) ==
    lvisits[CHOOSE i \in VisitsOf(ref) : \A j \in VisitsOf(ref) : i <= j]

GdlKinds == {"s", "v", "det", "gg", "x", "n", "q", "c", "mods"}

IsEnglishGloss(l) == Has(l, "f") /\ Get(l.f, "lang", "") = "qcu-949"

\* a Lemma rendered from its own f member
HasOwnLang(l) == Has(l, "f") /\ Get(l.f, "lang", "") \notin {"arc", "qcu-949"}

\* a Lemma without sub-elements whose id the loaded page does not hold
FetchNotFound(l) ==
    /\ HasOwnLang(l) /\ Get(l.f, "gdl", <<>>) = <<>>
    /\ soup.loaded /\ l.ref \notin DOMAIN soup.page

\* a Lemma with sub-elements, none of a kind the loop of lines 545-594 knows
NothingRenderable(l) ==
    /\ HasOwnLang(l) /\ Get(l.f, "gdl", <<>>) # <<>>
    /\ \A i \in DOMAIN l.f.gdl : DOMAIN l.f.gdl[i] \cap GdlKinds = {}

SeenRefs == {lvisits[i].ref : i \in DOMAIN lvisits} \ {""}

Silent(ref) == \A i \in VisitsOf(ref) : lvisits[i].nops = 0

\* C25 as stated: when the first Lemma of a reference id is an English
\* gloss, is not found on the remote page or has no renderable sub-element,
\* no Lemma of that id ever adds a run.
C25_SilentFirstSilencesId ==
    \A ref \in SeenRefs :
        (\/ IsEnglishGloss(Resolve(FirstVisit(ref).node))
         \/ FetchNotFound(Resolve(FirstVisit(ref).node))
         \/ NothingRenderable(Resolve(FirstVisit(ref).node)))
            => Silent(ref)

\* C25: every Lemma the walk dispatched has its reference id in l_reflist,
\* whatever its rendering did; when the first Lemma of an id is an English
\* gloss or is not found on the remote page no Lemma of that id adds a run;
\* when the first has only sub-elements of unknown kind it adds one run, the
\* lemma's delimiter, and every later Lemma of that id adds none.
C25_RecordedBeforeRendering ==
    \A ref \in SeenRefs :
        /\ AlreadyAdded(ref, l_reflist)
        /\ (\/ IsEnglishGloss(Resolve(FirstVisit(ref).node))
            \/ FetchNotFound(Resolve(FirstVisit(ref).node))) => Silent(ref)
        /\ NothingRenderable(Resolve(FirstVisit(ref).node)) =>
               /\ FirstVisit(ref).nops = (IF Len(doc) = 0 THEN 0 ELSE 1)
               /\ \A i \in VisitsOf(ref) :
                      lvisits[i] # FirstVisit(ref) => lvisits[i].nops = 0

\* an English gloss, then a Lemma of the same id with a sign form: skipped
C25_Witness ==
    /\ Len(lvisits) = 2
    /\ lvisits[1].ref = lvisits[2].ref
    /\ IsEnglishGloss(Resolve(lvisits[1].node))
    /\ Did("l") /\ lastOps.err = "" /\ lastOps.nops = 0
    /\ Has(LastNode.f, "gdl") /\ Has(LastNode.f.gdl[1], "v")
    /\ Len(doc) > 0
    /\ l_reflist = <<LastNode.ref>>

-----------------------------------------------------------------------------
(* C26: one request per walk.                                              *)

\* the handler of the node the walk is at calls requests.get: what it does
\* depends on what the call does
Requests ==
    /\ pc = "walk" /\ ~AtRoot /\ Has(Node, "node") /\ Node.node = "l"
    /\ \E r1, r2 \in Responses :
           ParseLNode(Node, doc, l_reflist, soup, r1) #
               ParseLNode(Node, doc, l_reflist, soup, r2)

\* the walk is at a Lemma without sub-elements that parse_l_node hands to
\* _scrape_incomplete_l_node
AtIncomplete ==
    /\ pc = "walk" /\ ~AtRoot /\ Has(Node, "node") /\ Node.node = "l"
    /\ Has(Node, "ref") /\ ~AlreadyAdded(Node.ref, l_reflist)
    /\ Len(doc) > 0
    /\ HasOwnLang(Node) /\ Get(Node.f, "gdl", <<>>) = <<>> /\ Has(Node, "frag")

\* C26: in a walk, a step that requests the remote page starts without a
\* page and either keeps the page it received or ends the walk with the
\* exception of the request, no other step changes the page, and once the
\* page is kept no step requests it again: every later Lemma without
\* sub-elements adds the runs of its id in the kept page, whatever earlier
\* lookups found.
C26_RequestedOnce ==
    [][pc = "walk" =>
          /\ Requests => (~soup.loaded /\ (soup'.loaded \/ pc' = "crashed"))
          /\ ~Requests => soup' = soup
          /\ (AtIncomplete /\ ~soup.loaded) => Requests
          /\ (AtIncomplete /\ soup.loaded) =>
                 /\ soup' = soup
                 /\ doc' = Apply(doc, RunsOn(Len(doc),
                                             ScrapePage(Node.ref, soup.page).runs))]_vars

\* two Lemmas without sub-elements in one walk: the id of the first is not
\* in the page, the id of the second is rendered from the kept page
C26_Witness ==
    /\ Len(lvisits) = 2
    /\ lvisits[1].ref # lvisits[2].ref
    /\ \A i \in 1..2 : /\ HasOwnLang(Resolve(lvisits[i].node))
                        /\ Get(Resolve(lvisits[i].node).f, "gdl", <<>>) = <<>>
    /\ soup.loaded
    /\ lvisits[1].ref \notin DOMAIN soup.page
    /\ lvisits[1].nops = 0
    /\ Did("l") /\ lastOps.err = "" /\ lastOps.nops > 0
    /\ LastNode.ref \in DOMAIN soup.page

====
